---- MODULE Spec2Model ----
(***************************************************************************)
(* Texas Auction Database: the relational store, the two ingestion paths   *)
(* (AuctionDatabase.import_data and                                        *)
(* OpenAIAuctionScraper.save_auctions_to_database), the two read queries   *)
(* and the record normalizer of the OpenAI scraper.                        *)
(*                                                                         *)
(* Conventions.  A Python dict is a function whose DOMAIN is the set of    *)
(* keys that are present.  A text value is a string; Python None / SQL     *)
(* NULL in a text position is NULL.  A number or a date is a tuple: <<n>>  *)
(* for the number n, an ISO-8601 text as the tuple of its fields, and      *)
(* None / SQL NULL in such a position is NONE.  The rowid of a row is its  *)
(* position in the table (no row is ever deleted).                         *)
(***************************************************************************)
EXTENDS Integers, Sequences, FiniteSets, TLC

NULL == "NULL"
NONE == << >>

\* SQL comparison "a = b" of two texts: never true when either side is NULL.
SqlEq(a, b) == a # NULL /\ b # NULL /\ a = b

\* SQL comparison "a = b" of two numbers: never true when either side is NULL.
SqlEqNum(a, b) == a # NONE /\ b # NONE /\ a = b

\* Python truthiness of an optional number (None and 0 are falsy).
Truthy(v) == v # NONE /\ v # <<0>>

\* Python truthiness of an optional text (None and "" are falsy).
TruthyText(s) == s # NULL /\ s # ""

\* dict.get(key, default)
Get(d, k, default) == IF k \in DOMAIN d THEN d[k] ELSE default

----------------------------------------------------------------------------
(* Bounds of the model *)

MaxRecs == 2        \* records per batch
MaxOps == 2         \* ingestion calls per behaviour
MaxQueryRecs == 3   \* records per batch, when queries follow
MaxQueryOps == 1    \* ingestion calls per behaviour, when queries follow
MaxRaw == 2         \* records per scraped page
MaxNow == 3         \* last value of the clock
MaxLimit == 2       \* largest page size asked for
MaxOffset == 1      \* largest offset asked for
MaxWebRecs == 1     \* records of the batch ingested before the handlers run

(* The clock counts hours; a day has HoursPerDay of them. *)
HoursPerDay == 2
InitNow == 2
DefaultHorizonDays == 7

----------------------------------------------------------------------------
(* Text encodings of dates.  Characters are their ASCII codes. *)

CharT == 84         \* 'T', the separator of datetime.isoformat()
CharSpace == 32     \* ' ', the separator of SQLite's CURRENT_TIMESTAMP

\* datetime.isoformat(): "YYYY-MM-DDTHH:MM:SS"
IsoFormat(t) == << t \div HoursPerDay, CharT, t % HoursPerDay >>

\* SQLite CURRENT_TIMESTAMP: "YYYY-MM-DD HH:MM:SS"
SqliteCurrentTimestamp(t) == << t \div HoursPerDay, CharSpace, t % HoursPerDay >>

\* The instant an ISO text denotes (what PostgreSQL stores in a TIMESTAMP column).
ParseIso(s) == s[1] * HoursPerDay + s[3]

\* Text comparison s < t, character by character (both texts have three fields).
TextLess(s, t) ==
    \/ s[1] < t[1]
    \/ s[1] = t[1] /\ s[2] < t[2]
    \/ s[1] = t[1] /\ s[2] = t[2] /\ s[3] < t[3]

Min(S) == CHOOSE m \in S : \A n \in S : m <= n

----------------------------------------------------------------------------
(* Geocoder adapter and distance calculator (database.py) *)

\* What the external provider does with one call.
GeoOutcomes == {"found", "no_result", "timed_out", "service_error"}

\* The places the provider knows, by the query text built from
\* (city, state, zip_code-or-"USA"), in whole degrees.
ProviderTable(q) ==
    CASE q = <<"", "", "78232">> -> [lat |-> <<29>>, lon |-> <<-98>>]
      [] q = <<"Austin", "TX", "78701">> -> [lat |-> <<30>>, lon |-> <<-98>>]
      [] q = <<"Austin", "TX", "USA">> -> [lat |-> <<30>>, lon |-> <<-98>>]
      [] q = <<"Houston", "TX", "77002">> -> [lat |-> <<30>>, lon |-> <<-95>>]
      [] OTHER -> [lat |-> NONE, lon |-> NONE]

\* location_str of geocode_location, as its three parts.
LocationStr(location) ==
    << IF TruthyText(Get(location, "city", NULL)) THEN location.city ELSE "",
       IF TruthyText(Get(location, "state", NULL)) THEN location.state ELSE "",
       IF TruthyText(Get(location, "zip_code", NULL)) THEN location.zip_code ELSE "USA" >>

\* geocode_location without its except clause: a timeout or a provider
\* error leaves the method as an exception.
geocode_location_uncaught(location, geo) ==
    IF ~TruthyText(Get(location, "city", NULL)) /\ ~TruthyText(Get(location, "zip_code", NULL))
    THEN [lat |-> NONE, lon |-> NONE, called |-> FALSE, raised |-> FALSE]
    ELSE CASE geo = "found" ->
                [lat |-> ProviderTable(LocationStr(location)).lat,
                 lon |-> ProviderTable(LocationStr(location)).lon,
                 called |-> TRUE, raised |-> FALSE]
           [] geo = "no_result" ->
                [lat |-> NONE, lon |-> NONE, called |-> TRUE, raised |-> FALSE]
           [] geo \in {"timed_out", "service_error"} ->
                [lat |-> NONE, lon |-> NONE, called |-> TRUE, raised |-> TRUE]

\* geocode_location without its "Skip geocoding if we don't have enough
\* information" test.
geocode_location_no_skip(location, geo) ==
    CASE geo = "found" ->
            [lat |-> ProviderTable(LocationStr(location)).lat,
             lon |-> ProviderTable(LocationStr(location)).lon,
             called |-> TRUE, raised |-> FALSE]
      [] OTHER ->
            [lat |-> NONE, lon |-> NONE, called |-> TRUE, raised |-> FALSE]

\* geocode_location: (lat, lon), or (None, None); called tells whether the
\* provider was called.  geo is the provider's behaviour for this call.
geocode_location(location, geo) ==
    IF ~TruthyText(Get(location, "city", NULL)) /\ ~TruthyText(Get(location, "zip_code", NULL))
    THEN [lat |-> NONE, lon |-> NONE, called |-> FALSE, raised |-> FALSE]
    ELSE CASE geo = "found" ->
                [lat |-> ProviderTable(LocationStr(location)).lat,
                 lon |-> ProviderTable(LocationStr(location)).lon,
                 called |-> TRUE, raised |-> FALSE]
           [] geo = "no_result" ->
                [lat |-> NONE, lon |-> NONE, called |-> TRUE, raised |-> FALSE]
           [] geo \in {"timed_out", "service_error"} ->
                \* except (GeocoderTimedOut, GeocoderServiceError): return None, None
                [lat |-> NONE, lon |-> NONE, called |-> TRUE, raised |-> FALSE]

\* sin of k half-degrees and cos of d degrees, scaled by 10^4.
SinHalfDeg(k) ==
    LET m == IF k < 0 THEN -k ELSE k
        v == CASE m = 0 -> 0 [] m = 1 -> 87 [] m = 2 -> 175 [] m = 3 -> 262
               [] m = 4 -> 349 [] m = 5 -> 436 [] m = 6 -> 523 [] OTHER -> 610
    IN IF k < 0 THEN -v ELSE v

CosDeg(d) ==
    CASE d = 28 -> 8829 [] d = 29 -> 8746 [] d = 30 -> 8660 [] d = 31 -> 8572
      [] d = 32 -> 8480 [] d = 33 -> 8387 [] OTHER -> 8290

MaxRoot == 2000
Isqrt(n) == CHOOSE r \in 0..MaxRoot : r * r <= n /\ (r + 1) * (r + 1) > n

EarthRadiusMiles == 3956

\* _calculate_distance with cos(lat1) taken twice in place of
\* cos(lat1) * cos(lat2).
_calculate_distance_one_cosine(lat1, lon1, lat2, lon2) ==
    LET dlon == lon2 - lon1
        dlat == lat2 - lat1
        sdlat == SinHalfDeg(dlat)
        sdlon == SinHalfDeg(dlon)
        a == sdlat * sdlat + (((CosDeg(lat1) * CosDeg(lat1)) \div 10000) * (sdlon * sdlon)) \div 10000
        x == Isqrt(a)
        asinx == x + (x * x * x) \div 600000000
        c == 2 * asinx
    IN (c * EarthRadiusMiles) \div 10000

\* _calculate_distance: haversine in fixed point (angles in whole degrees,
\* sines and cosines scaled by 10^4, the result in whole miles).
_calculate_distance(lat1, lon1, lat2, lon2) ==
    LET dlon == lon2 - lon1
        dlat == lat2 - lat1
        sdlat == SinHalfDeg(dlat)
        sdlon == SinHalfDeg(dlon)
        \* a = sin(dlat/2)^2 + cos(lat1) * cos(lat2) * sin(dlon/2)^2, scaled by 10^8
        a == sdlat * sdlat + (((CosDeg(lat1) * CosDeg(lat2)) \div 10000) * (sdlon * sdlon)) \div 10000
        x == Isqrt(a)                                   \* sqrt(a), scaled by 10^4
        asinx == x + (x * x * x) \div 600000000         \* asin(x) = x + x^3/6 + ...
        c == 2 * asinx
    IN (c * EarthRadiusMiles) \div 10000

----------------------------------------------------------------------------
(* Connections (database.py): the set of the connections that are open, by *)
(* number, and self.conn of the AuctionDatabase object a script holds.     *)

MaxConns == 3

NoConns == [open |-> {}, conn |-> NONE]

\* The connection a connect() that succeeds makes
NewConn(c) == Min((1..(MaxConns + 1)) \ c.open)

\* connect(): self.conn = ...connect(...); when that raises, self.conn stays
connect(c, connected) ==
    IF connected
    THEN [open |-> c.open \cup {NewConn(c)}, conn |-> <<NewConn(c)>>]
    ELSE c

\* close(): "if self.conn: self.conn.close(); self.conn = None"
close(c) ==
    IF c.conn # NONE THEN [open |-> c.open \ {c.conn[1]}, conn |-> NONE] ELSE c

\* create_tables(): conn = self.connect() ... finally: self.close().  When
\* connect() raises, the handler reads conn, which was never assigned.
create_tables(c, connected) ==
    [conns |-> close(connect(c, connected)),
     ret |-> connected,
     raised |-> IF connected THEN "none" ELSE "UnboundLocalError"]

----------------------------------------------------------------------------
(* The store: the tables of create_tables (database.py) *)

DbTypes == {"sqlite", "postgresql"}

EmptyStore ==
    [sources |-> << >>, categories |-> << >>, locations |-> << >>,
     auctions |-> << >>, images |-> << >>]

\* The value an INSERT gives to a column declared "SERIAL PRIMARY KEY" when
\* the statement does not name it.  PostgreSQL draws it from the column's
\* sequence.  In SQLite SERIAL is not INTEGER, so the column is no alias of
\* the rowid and stays NULL.
SerialValue(dbt, nextval) == IF dbt = "sqlite" THEN NONE ELSE <<nextval>>

\* The rows of a table that satisfy Match.
Hits(table, Match(_)) == {i \in DOMAIN table : Match(table[i])}

----------------------------------------------------------------------------
(* AuctionDatabase.import_data.  A transaction is [t, st, n]: the tables as *)
(* the open transaction sees them, "ok" or the exception that ended the     *)
(* call, and imported_count.                                                *)

\* The loop over the sources without its "Check if source already exists".
RECURSIVE import_sources_no_lookup(_, _, _)
import_sources_no_lookup(dbt, t, sources) ==
    IF sources = << >> THEN t
    ELSE import_sources_no_lookup(dbt,
            [t EXCEPT !.sources = Append(@,
                [source_id |-> SerialValue(dbt, Len(t.sources) + 1),
                 name |-> Head(sources).name,
                 website_url |-> Head(sources).website_url])],
            Tail(sources))

\* "for source in data.get('sources', [])": look the source up by name, insert
\* it when absent.
RECURSIVE import_sources(_, _, _)
import_sources(dbt, t, sources) ==
    IF sources = << >> THEN t
    ELSE LET source == Head(sources)
             hits == Hits(t.sources, LAMBDA row : SqlEq(row.name, source.name))
             t2 == IF hits # {} THEN t
                   ELSE [t EXCEPT !.sources = Append(@,
                            [source_id |-> SerialValue(dbt, Len(t.sources) + 1),
                             name |-> source.name,
                             website_url |-> source.website_url])]
         IN import_sources(dbt, t2, Tail(sources))

\* "for category in data.get('categories', [])"
RECURSIVE import_categories(_, _, _)
import_categories(dbt, t, categories) ==
    IF categories = << >> THEN t
    ELSE LET category == Head(categories)
             hits == Hits(t.categories, LAMBDA row : SqlEq(row.name, category.name))
             t2 == IF hits # {} THEN t
                   ELSE [t EXCEPT !.categories = Append(@,
                            [category_id |-> SerialValue(dbt, Len(t.categories) + 1),
                             name |-> category.name])]
         IN import_categories(dbt, t2, Tail(categories))

\* "Geocode location if needed": the location dict after lines 513-518.
import_geocoded(location, geo) ==
    IF "latitude" \notin DOMAIN location \/ "longitude" \notin DOMAIN location
    THEN LET g == geocode_location(location, geo)
         IN IF Truthy(g.lat) /\ Truthy(g.lon)
            THEN [k \in DOMAIN location \cup {"latitude", "longitude"} |->
                    IF k = "latitude" THEN g.lat
                    ELSE IF k = "longitude" THEN g.lon ELSE location[k]]
            ELSE location
    ELSE location

\* "Get or create location", for the location dict as geocoded:
\* [t, st, location_id]
import_location(dbt, t, location) ==
    LET city == Get(location, "city", "")
        state == Get(location, "state", "TX")
        zip_code == Get(location, "zip_code", "")
        hits == Hits(t.locations, LAMBDA row :
                    SqlEq(row.city, city) /\ SqlEq(row.state, state)
                    /\ SqlEq(row.zip_code, zip_code))
    IN IF hits # {}
       THEN \* location_id = result[0]
            [t |-> t, st |-> "ok", location_id |-> t.locations[Min(hits)].location_id]
       ELSE IF city = NULL \/ state = NULL
       THEN \* city TEXT NOT NULL, state TEXT NOT NULL
            [t |-> t, st |-> "db_error", location_id |-> NONE]
       ELSE [t |-> [t EXCEPT !.locations = Append(@,
                      [location_id |-> SerialValue(dbt, Len(t.locations) + 1),
                       city |-> city, state |-> state, zip_code |-> zip_code,
                       latitude |-> Get(location, "latitude", NONE),
                       longitude |-> Get(location, "longitude", NONE)])],
             st |-> "ok",
             \* cursor.lastrowid
             location_id |-> <<Len(t.locations) + 1>>]

\* "Check if auction already exists" and the UPDATE or INSERT that follows:
\* [t, st, auction_id, inserted]
import_auction(dbt, t, auction, location_id) ==
    IF "source_id" \notin DOMAIN auction
    THEN [t |-> t, st |-> "KeyError", auction_id |-> NONE, inserted |-> 0]
    ELSE
    LET hits == Hits(t.auctions, LAMBDA row :
                    SqlEq(row.source_id, auction.source_id)
                    /\ SqlEq(row.external_id, Get(auction, "external_id", "")))
        found_id == t.auctions[Min(hits)].auction_id
        values == [title |-> auction.title,
                   end_date |-> auction.end_date,
                   url |-> auction.url,
                   status |-> Get(auction, "status", "active"),
                   location_id |-> location_id,
                   category_id |-> Get(auction, "category_id", NONE)]
        \* title, end_date and url are TEXT/TIMESTAMP NOT NULL
        not_null == values.title # NULL /\ values.end_date # NONE /\ values.url # NULL
        targets == Hits(t.auctions, LAMBDA row : SqlEqNum(row.auction_id, found_id))
    IN IF {"title", "end_date", "url"} \ DOMAIN auction # {}
       THEN \* auction["title"], auction["end_date"], auction["url"]
            [t |-> t, st |-> "KeyError", auction_id |-> NONE, inserted |-> 0]
       ELSE IF hits # {}
       THEN \* UPDATE auctions SET ... WHERE auction_id = ?
            IF targets # {} /\ ~not_null
            THEN [t |-> t, st |-> "db_error", auction_id |-> found_id, inserted |-> 0]
            ELSE [t |-> [t EXCEPT !.auctions =
                            [i \in DOMAIN t.auctions |->
                                IF i \in targets
                                THEN [k \in DOMAIN t.auctions[i] |->
                                        IF k \in DOMAIN values THEN values[k]
                                        ELSE t.auctions[i][k]]
                                ELSE t.auctions[i]]],
                  st |-> "ok", auction_id |-> found_id, inserted |-> 0]
       ELSE \* INSERT INTO auctions
            IF ~not_null \/ auction.source_id = NULL
            THEN [t |-> t, st |-> "db_error", auction_id |-> NONE, inserted |-> 0]
            ELSE [t |-> [t EXCEPT !.auctions = Append(@,
                            [auction_id |-> SerialValue(dbt, Len(t.auctions) + 1),
                             source_id |-> auction.source_id,
                             external_id |-> Get(auction, "external_id", ""),
                             title |-> values.title,
                             end_date |-> values.end_date,
                             url |-> values.url,
                             status |-> values.status,
                             location_id |-> values.location_id,
                             category_id |-> values.category_id,
                             ctid |-> Len(t.auctions) + 1])],
                  st |-> "ok",
                  \* cursor.lastrowid
                  auction_id |-> <<Len(t.auctions) + 1>>,
                  inserted |-> 1]

\* "Import images": one INSERT per image, no check for an existing row.
RECURSIVE import_images(_, _, _, _)
import_images(dbt, t, auction_id, images) ==
    IF images = << >> THEN [t |-> t, st |-> "ok"]
    ELSE IF auction_id = NONE \/ Head(images) = NULL
    THEN \* auction_id INTEGER NOT NULL, image_url TEXT NOT NULL
         [t |-> t, st |-> "db_error"]
    ELSE import_images(dbt,
            [t EXCEPT !.images = Append(@,
                [image_id |-> SerialValue(dbt, Len(t.images) + 1),
                 auction_id |-> auction_id,
                 image_url |-> Head(images)])],
            auction_id, Tail(images))

\* The record's location step: location_id stays None without a location.
import_record_location(dbt, t, auction, geo) ==
    IF "location" \in DOMAIN auction
    THEN import_location(dbt, t, import_geocoded(auction.location, geo))
    ELSE [t |-> t, st |-> "ok", location_id |-> NONE]

\* The record's auction step, after its location step loc.
import_record_auction(dbt, auction, loc) ==
    IF loc.st # "ok" THEN loc
    ELSE import_auction(dbt, loc.t, auction, loc.location_id)

\* The record's images step, after its auction step auc.
import_record_images(dbt, auction, auc) ==
    IF auc.st # "ok" \/ "images" \notin DOMAIN auction THEN auc
    ELSE import_images(dbt, auc.t, auc.auction_id, auction.images)
            @@ [inserted |-> auc.inserted]

\* The transaction after the record's last step r: imported_count += 1 for
\* an inserted auction; an exception ends the loop.
import_record_done(tx, r) ==
    IF r.st # "ok" THEN [t |-> tx.t, st |-> r.st, n |-> tx.n]
    ELSE [t |-> r.t, st |-> "ok", n |-> tx.n + r.inserted]

\* The body of "for auction in data.get('auctions', [])" for one record.
import_record(dbt, tx, auction, geo) ==
    import_record_done(tx,
        import_record_images(dbt, auction,
            import_record_auction(dbt, auction,
                import_record_location(dbt, tx.t, auction, geo))))

RECURSIVE import_records(_, _, _, _)
import_records(dbt, tx, auctions, geo) ==
    IF auctions = << >> \/ tx.st # "ok" THEN tx
    ELSE import_records(dbt, import_record(dbt, tx, Head(auctions), geo),
                        Tail(auctions), geo)

\* What psycopg2 does with a statement that has "?" where it expects "%s":
\* the statement fails, with a psycopg2.Error or with a TypeError.
PlaceholderOutcomes == {"db_error", "TypeError"}

\* The transaction of import_data: the sources, the categories, then the
\* auctions.
import_transaction(dbt, store, data, geo, ph) ==
    IF /\ dbt = "postgresql"
       /\ Len(Get(data, "sources", << >>)) + Len(Get(data, "categories", << >>))
            + Len(Get(data, "auctions", << >>)) > 0
    THEN \* every cursor.execute of import_data passes "?" placeholders
         [t |-> store, st |-> ph, n |-> 0]
    ELSE import_records(dbt,
            [t |-> import_categories(dbt,
                      import_sources(dbt, store, Get(data, "sources", << >>)),
                      Get(data, "categories", << >>)),
             st |-> "ok", n |-> 0],
            Get(data, "auctions", << >>), geo)

\* import_outcome with a commit in place of the rollback of the handler.
import_outcome_commits_on_error(store, tx) ==
    CASE tx.st \in {"ok", "db_error"} ->
              [store |-> tx.t, ret |-> IF tx.st = "ok" THEN <<tx.n>> ELSE <<0>>,
               raised |-> "none", error |-> tx.st]
      [] OTHER ->
              [store |-> store, ret |-> NONE, raised |-> tx.st, error |-> tx.st]

\* How import_data ends after its transaction tx.  error is the exception
\* that ended the transaction ("ok" when none did).
import_outcome(store, tx) ==
    CASE tx.st = "ok" ->
              \* conn.commit(); return imported_count
              [store |-> tx.t, ret |-> <<tx.n>>, raised |-> "none", error |-> "ok"]
      [] tx.st = "db_error" ->
              \* except (sqlite3.Error, psycopg2.Error, ...): conn.rollback(); return 0
              [store |-> store, ret |-> <<0>>, raised |-> "none", error |-> "db_error"]
      [] OTHER ->
              \* no handler: finally closes the connection, nothing is committed
              [store |-> store, ret |-> NONE, raised |-> tx.st, error |-> tx.st]

\* What can happen before the first record is looked at: the file is read
\* and the connection made, the file does not exist, the file is no JSON, or
\* connect() raises.
IoOutcomes == {"ok", "no_file", "malformed", "no_connection"}

\* import_data: the tables after the call, the value returned and the
\* exception that escaped ("none" when the call returned).
import_data(dbt, store, io, data, geo, ph) ==
    CASE io = "no_file" ->
              \* open(data_file) raises FileNotFoundError: no handler
              [store |-> store, ret |-> NONE, raised |-> "FileNotFoundError",
               error |-> "FileNotFoundError"]
      [] io \in {"malformed", "no_connection"} ->
              \* except (sqlite3.Error, psycopg2.Error, json.JSONDecodeError):
              \* "if conn:" reads conn, which was never assigned
              [store |-> store, ret |-> NONE, raised |-> "UnboundLocalError",
               error |-> IF io = "malformed" THEN "JSONDecodeError" ELSE "db_error"]
      [] OTHER ->
              import_outcome(store, import_transaction(dbt, store, data, geo, ph))

----------------------------------------------------------------------------
(* OpenAIAuctionScraper.save_auctions_to_database                           *)
(* (scrapers/openai_scraper_fixed_dates.py).  Its statements use "%s" and   *)
(* RETURNING.  seqs are the sequences behind the SERIAL columns; a rollback *)
(* does not give their values back.                                         *)

\* ctid counts the row versions written to the auctions heap.
InitSeqs == [sources |-> 0, locations |-> 0, auctions |-> 0, images |-> 0, ctid |-> 0]

\* "Get or create source": [t, seqs, st, source_id]
save_source(dbt, t, seqs, auction) ==
    LET name == Get(auction, "source_id", "unknown")
        website_url == Get(auction, "url", "")
        hits == Hits(t.sources, LAMBDA row : SqlEq(row.name, name))
        seqs2 == [seqs EXCEPT !.sources = @ + 1]
    IN IF hits # {}
       THEN [t |-> t, seqs |-> seqs, st |-> "ok",
             source_id |-> t.sources[Min(hits)].source_id]
       ELSE IF name = NULL \/ website_url = NULL
       THEN \* name TEXT NOT NULL, website_url TEXT NOT NULL
            [t |-> t, seqs |-> seqs2, st |-> "db_error", source_id |-> NONE]
       ELSE [t |-> [t EXCEPT !.sources = Append(@,
                      [source_id |-> SerialValue(dbt, seqs2.sources),
                       name |-> name, website_url |-> website_url])],
             seqs |-> seqs2, st |-> "ok",
             \* RETURNING source_id
             source_id |-> SerialValue(dbt, seqs2.sources)]

\* "Get or create location": [t, seqs, st, location_id]
save_location(dbt, t, seqs, auction) ==
    LET location == Get(auction, "location", << >>)
        city == Get(location, "city", NULL)
        state == Get(location, "state", "TX")
        zip_code == Get(location, "zip_code", NULL)
        hits == Hits(t.locations, LAMBDA row :
                    SqlEq(row.city, city) /\ SqlEq(row.state, state)
                    /\ SqlEq(row.zip_code, zip_code))
        seqs2 == [seqs EXCEPT !.locations = @ + 1]
    IN IF hits # {}
       THEN [t |-> t, seqs |-> seqs, st |-> "ok",
             location_id |-> t.locations[Min(hits)].location_id]
       ELSE IF city = NULL \/ state = NULL
       THEN \* city TEXT NOT NULL, state TEXT NOT NULL
            [t |-> t, seqs |-> seqs2, st |-> "db_error", location_id |-> NONE]
       ELSE [t |-> [t EXCEPT !.locations = Append(@,
                      [location_id |-> SerialValue(dbt, seqs2.locations),
                       city |-> city, state |-> state, zip_code |-> zip_code,
                       latitude |-> NONE, longitude |-> NONE])],
             seqs |-> seqs2, st |-> "ok",
             \* RETURNING location_id
             location_id |-> SerialValue(dbt, seqs2.locations)]

\* "Check if auction already exists" and the UPDATE or INSERT that follows:
\* [t, seqs, st, auction_id]
save_auction(dbt, t, seqs, auction, source_id, location_id) ==
    LET hits == Hits(t.auctions, LAMBDA row :
                    SqlEq(row.external_id, Get(auction, "external_id", ""))
                    /\ SqlEqNum(row.source_id, source_id))
        found_id == t.auctions[Min(hits)].auction_id
        values == [title |-> Get(auction, "title", ""),
                   end_date |-> Get(auction, "end_date", NONE),
                   url |-> Get(auction, "url", ""),
                   location_id |-> location_id]
        not_null == values.title # NULL /\ values.end_date # NONE /\ values.url # NULL
        targets == Hits(t.auctions, LAMBDA row : SqlEqNum(row.auction_id, found_id))
        seqs2 == [seqs EXCEPT !.auctions = @ + 1, !.ctid = @ + 1]
        \* PostgreSQL writes the new version of an updated row at a new place
        \* of the heap
        sequ == [seqs EXCEPT !.ctid = @ + 1]
    IN IF hits # {}
       THEN \* UPDATE auctions SET title, description, current_price, end_date,
            \* url, location_id, updated_at WHERE auction_id = %s
            IF targets # {} /\ ~not_null
            THEN [t |-> t, seqs |-> seqs, st |-> "db_error", auction_id |-> found_id]
            ELSE [t |-> [t EXCEPT !.auctions =
                            [i \in DOMAIN t.auctions |->
                                IF i \in targets
                                THEN [k \in DOMAIN t.auctions[i] |->
                                        IF k \in DOMAIN values THEN values[k]
                                        ELSE IF k = "ctid" THEN sequ.ctid
                                        ELSE t.auctions[i][k]]
                                ELSE t.auctions[i]]],
                  seqs |-> sequ, st |-> "ok", auction_id |-> found_id]
       ELSE \* INSERT INTO auctions (...) RETURNING auction_id
            IF ~not_null \/ source_id = NONE
            THEN [t |-> t, seqs |-> seqs2, st |-> "db_error", auction_id |-> NONE]
            ELSE [t |-> [t EXCEPT !.auctions = Append(@,
                            [auction_id |-> SerialValue(dbt, seqs2.auctions),
                             source_id |-> source_id,
                             external_id |-> Get(auction, "external_id", ""),
                             title |-> values.title,
                             end_date |-> values.end_date,
                             url |-> values.url,
                             \* status TEXT DEFAULT 'active'; category_id is not named
                             status |-> "active",
                             location_id |-> location_id,
                             category_id |-> NONE,
                             ctid |-> seqs2.ctid])],
                  seqs |-> seqs2, st |-> "ok",
                  auction_id |-> SerialValue(dbt, seqs2.auctions)]

\* "Add images": an image URL is inserted unless the auction already has it.
RECURSIVE save_images(_, _, _, _, _)
save_images(dbt, t, seqs, auction_id, images) ==
    IF images = << >> THEN [t |-> t, seqs |-> seqs, st |-> "ok"]
    ELSE LET image_url == Head(images)
             exists == Hits(t.images, LAMBDA row :
                          SqlEqNum(row.auction_id, auction_id)
                          /\ SqlEq(row.image_url, image_url)) # {}
             seqs2 == [seqs EXCEPT !.images = @ + 1]
         IN IF ~TruthyText(image_url) \/ exists
            THEN save_images(dbt, t, seqs, auction_id, Tail(images))
            ELSE IF auction_id = NONE
            THEN [t |-> t, seqs |-> seqs2, st |-> "db_error"]
            ELSE save_images(dbt,
                    [t EXCEPT !.images = Append(@,
                        [image_id |-> SerialValue(dbt, seqs2.images),
                         auction_id |-> auction_id,
                         image_url |-> image_url])],
                    seqs2, auction_id, Tail(images))

\* The record's location step, after its source step src.
save_record_location(dbt, auction, src) ==
    IF src.st # "ok" THEN src
    ELSE save_location(dbt, src.t, src.seqs, auction) @@ [source_id |-> src.source_id]

\* The record's auction step, after its location step loc.
save_record_auction(dbt, auction, loc) ==
    IF loc.st # "ok" THEN loc
    ELSE save_auction(dbt, loc.t, loc.seqs, auction, loc.source_id, loc.location_id)

\* The record's images step, after its auction step auc.
save_record_images(dbt, auction, auc) ==
    IF auc.st # "ok" THEN auc
    ELSE save_images(dbt, auc.t, auc.seqs, auc.auction_id, Get(auction, "images", << >>))

\* save_record_done with the rollback of the except block left out.
save_record_done_no_rollback(acc, r) ==
    IF r.st # "ok" THEN [store |-> r.t, seqs |-> r.seqs, count |-> acc.count]
    ELSE [store |-> r.t, seqs |-> r.seqs, count |-> acc.count + 1]

\* The end of the try block after the record's last step r: conn.commit()
\* and count += 1, or the except block with its rollback.
save_record_done(acc, r) ==
    IF r.st # "ok" THEN [store |-> acc.store, seqs |-> r.seqs, count |-> acc.count]
    ELSE [store |-> r.t, seqs |-> r.seqs, count |-> acc.count + 1]

\* The statements of the try block up to the commit: [t, seqs, st, ...]
save_record_try(dbt, acc, auction) ==
    IF dbt = "sqlite"
    THEN \* "%s" is no SQLite placeholder: the first execute raises
         \* sqlite3.OperationalError
         [t |-> acc.store, seqs |-> acc.seqs, st |-> "db_error"]
    ELSE save_record_images(dbt, auction,
             save_record_auction(dbt, auction,
                 save_record_location(dbt, auction,
                     save_source(dbt, acc.store, acc.seqs, auction))))

\* The body of "for auction in auctions".  acc is [store, seqs, count].
save_record(dbt, acc, auction) ==
    save_record_done(acc, save_record_try(dbt, acc, auction))

RECURSIVE save_records(_, _, _)
save_records(dbt, acc, auctions) ==
    IF auctions = << >> THEN acc
    ELSE save_records(dbt, save_record(dbt, acc, Head(auctions)), Tail(auctions))

\* What save_auctions_to_database leaves and returns after its loop.
save_outcome(acc) ==
    [store |-> acc.store, seqs |-> acc.seqs, ret |-> <<acc.count>>, raised |-> "none"]

\* save_auctions_to_database: the tables and sequences after the call and
\* the count returned.
save_auctions_to_database(dbt, store, seqs, auctions) ==
    save_outcome(save_records(dbt, [store |-> store, seqs |-> seqs, count |-> 0], auctions))

----------------------------------------------------------------------------
(* Query engine (database.py).  A query returns the rows as the list of    *)
(* their rowids (with the distance, for the proximity query).              *)

\* The stable sort of a sequence of records by their field key.
InsertByKey(sorted, x) ==
    LET k == Cardinality({i \in DOMAIN sorted : sorted[i].key <= x.key})
    IN SubSeq(sorted, 1, k) \o <<x>> \o SubSeq(sorted, k + 1, Len(sorted))

RECURSIVE StableSort(_, _)
StableSort(s, sorted) ==
    IF s = << >> THEN sorted ELSE StableSort(Tail(s), InsertByKey(sorted, Head(s)))

\* Python's s[offset:offset+limit]; SQL's LIMIT limit OFFSET offset.
Slice(s, offset, limit) ==
    LET last == IF offset + limit < Len(s) THEN offset + limit ELSE Len(s)
    IN IF offset >= Len(s) THEN << >> ELSE SubSeq(s, offset + 1, last)

\* "a.end_date > CURRENT_TIMESTAMP".  SQLite keeps the ISO text that was
\* inserted and compares it, as text, with 'YYYY-MM-DD HH:MM:SS'; PostgreSQL
\* compares instants.
EndDateInFuture(dbt, end_date, now) ==
    IF dbt = "sqlite"
    THEN TextLess(SqliteCurrentTimestamp(now), end_date)
    ELSE ParseIso(end_date) > now

\* The rank of an end_date under "ORDER BY a.end_date": the collation order
\* of the text in SQLite, the instant in PostgreSQL.
EndDateRank(dbt, end_date) ==
    IF dbt = "sqlite"
    THEN (end_date[1] * 256 + end_date[2]) * 256 + end_date[3]
    ELSE ParseIso(end_date)

\* "WHERE a.status = 'active' AND a.end_date > CURRENT_TIMESTAMP"
LiveRows(dbt, store, now) ==
    {i \in DOMAIN store.auctions :
        /\ SqlEq(store.auctions[i].status, "active")
        /\ EndDateInFuture(dbt, store.auctions[i].end_date, now)}

\* The rowids of a set of auction rows in the order a scan of the table
\* meets them: by place in the heap.
RECURSIVE ScanOrder(_, _)
ScanOrder(store, rows) ==
    IF rows = {} THEN << >>
    ELSE LET first == CHOOSE i \in rows :
                        \A j \in rows : store.auctions[i].ctid <= store.auctions[j].ctid
         IN <<first>> \o ScanOrder(store, rows \ {first})

SeqMap(s, F(_)) == [i \in DOMAIN s |-> F(s[i])]

\* get_auctions_by_end_date
get_auctions_by_end_date(dbt, store, now, limit, offset) ==
    LET scanned == ScanOrder(store, LiveRows(dbt, store, now))
        keyed == SeqMap(scanned, LAMBDA i :
                    [rowid |-> i, key |-> EndDateRank(dbt, store.auctions[i].end_date)])
        ordered == StableSort(keyed, << >>)
    IN SeqMap(Slice(ordered, offset, limit), LAMBDA r : r.rowid)

\* The rows of "FROM auctions a LEFT JOIN locations l ON a.location_id =
\* l.location_id WHERE ... AND l.latitude IS NOT NULL AND l.longitude IS NOT
\* NULL", as pairs of rowids.
RECURSIVE JoinedRows(_, _)
JoinedRows(store, scanned) ==
    IF scanned = << >> THEN << >>
    ELSE LET a == store.auctions[Head(scanned)]
             ls == Hits(store.locations, LAMBDA l :
                      /\ SqlEqNum(a.location_id, l.location_id)
                      /\ l.latitude # NONE /\ l.longitude # NONE)
             RECURSIVE pairs(_)
             pairs(S) == IF S = {} THEN << >>
                         ELSE <<[rowid |-> Head(scanned), loc |-> Min(S)]>> \o pairs(S \ {Min(S)})
         IN pairs(ls) \o JoinedRows(store, Tail(scanned))

Infinity == 1000000

\* get_auctions_by_proximity: [rows, raised]
get_auctions_by_proximity(dbt, store, now, zip_code, max_distance, limit, offset, geo) ==
    LET user == geocode_location([zip_code |-> zip_code], geo)
        joined == JoinedRows(store, ScanOrder(store, LiveRows(dbt, store, now)))
        keyed == SeqMap(joined, LAMBDA r :
                    LET l == store.locations[r.loc]
                    IN [rowid |-> r.rowid,
                        key |-> IF Truthy(l.latitude) /\ Truthy(l.longitude)
                                THEN _calculate_distance(user.lat[1], user.lon[1],
                                                         l.latitude[1], l.longitude[1])
                                ELSE Infinity])
        RECURSIVE within(_)
        within(s) == IF s = << >> THEN << >>
                     ELSE IF Head(s).key <= max_distance
                     THEN <<Head(s)>> \o within(Tail(s)) ELSE within(Tail(s))
        sorted == StableSort(within(keyed), << >>)
    IN IF user.raised
       THEN [rows |-> << >>, raised |-> TRUE]
       ELSE IF ~Truthy(user.lat) \/ ~Truthy(user.lon)
       THEN [rows |-> << >>, raised |-> FALSE]
       ELSE [rows |-> SeqMap(Slice(sorted, offset, limit),
                             LAMBDA r : [rowid |-> r.rowid, distance |-> r.key]),
             raised |-> FALSE]

----------------------------------------------------------------------------
(* Record normalizer (scrapers/openai_scraper_fixed_dates.py).  A raw date  *)
(* text is the tuple of its format and its fields; the empty text is        *)
(* <<"">>, and a value that is no text at all (a JSON number) is            *)
(* <<"number">>.                                                            *)

EmptyText == <<"">>

\* Python truthiness of a raw JSON value
TruthyRaw(v) == v # NONE /\ v # EmptyText

\* (datetime.now() + timedelta(days=7)).isoformat()
DefaultEndDate(now) == IsoFormat(now + DefaultHorizonDays * HoursPerDay)

\* the formats list of _parse_date, in its order
DateFormats == <<"%m/%d/%Y %I:%M %p", "%m/%d/%Y", "%Y-%m-%d %H:%M:%S",
                 "%Y-%m-%d", "%B %d, %Y %I:%M %p", "%B %d, %Y">>

\* datetime.strptime(date_str, fmt): the instant, or NONE for ValueError.
\* A text in a format without a time of day denotes midnight.
strptime(date_str, fmt) ==
    IF date_str[1] # fmt THEN NONE
    ELSE IF Len(date_str) = 3 THEN <<date_str[2] * HoursPerDay + date_str[3]>>
    ELSE <<date_str[2] * HoursPerDay>>

\* "for fmt in formats": the first format that parses, or NONE
RECURSIVE TryFormats(_, _)
TryFormats(date_str, formats) ==
    IF formats = << >> THEN NONE
    ELSE IF strptime(date_str, Head(formats)) # NONE
    THEN strptime(date_str, Head(formats))
    ELSE TryFormats(date_str, Tail(formats))

\* _parse_date with the fallback of BaseScraper.normalize_date: a text that
\* no parser accepts is returned as it came.
_parse_date_keeps_text(date_str, now) ==
    IF ~TruthyRaw(date_str) THEN DefaultEndDate(now)
    ELSE IF date_str[1] = "number" THEN date_str
    ELSE IF date_str[1] = "N days M hours"
    THEN IsoFormat(now + date_str[2] * HoursPerDay + date_str[3])
    ELSE IF date_str[1] = "N hours M mins"
    THEN IsoFormat(now + (date_str[2] * 60 + date_str[3]) \div 60)
    ELSE IF TryFormats(date_str, DateFormats) # NONE
    THEN IsoFormat(TryFormats(date_str, DateFormats)[1])
    ELSE IF date_str[1] = "dateutil"
    THEN IsoFormat(date_str[2] * HoursPerDay + date_str[3])
    ELSE date_str

\* _parse_date
_parse_date(date_str, now) ==
    IF ~TruthyRaw(date_str) THEN DefaultEndDate(now)
    ELSE IF date_str[1] = "number"
    THEN \* re.search raises TypeError; except Exception: the default
         DefaultEndDate(now)
    ELSE IF date_str[1] = "N days M hours"
    THEN IsoFormat(now + date_str[2] * HoursPerDay + date_str[3])
    ELSE IF date_str[1] = "N hours M mins"
    THEN IsoFormat(now + (date_str[2] * 60 + date_str[3]) \div 60)
    ELSE IF TryFormats(date_str, DateFormats) # NONE
    THEN IsoFormat(TryFormats(date_str, DateFormats)[1])
    ELSE IF date_str[1] = "dateutil"
    THEN \* dateutil.parser.parse accepts the text
         IsoFormat(date_str[2] * HoursPerDay + date_str[3])
    ELSE \* dateutil.parser.parse raises; except Exception: the default
         DefaultEndDate(now)

\* "for auction in auctions" of _extract_auctions_with_openai: the dates
extract_dates(auction, now) ==
    LET a1 == IF "start_date" \in DOMAIN auction /\ TruthyRaw(auction.start_date)
              THEN [auction EXCEPT !.start_date = _parse_date(auction.start_date, now)]
              ELSE auction
        end_date == IF "end_date" \in DOMAIN auction /\ TruthyRaw(auction.end_date)
                    THEN _parse_date(auction.end_date, now)
                    ELSE DefaultEndDate(now)
    IN [k \in DOMAIN a1 \cup {"end_date"} |-> IF k = "end_date" THEN end_date ELSE a1[k]]

\* A text is the sequence of its characters.
UpperLetters ==
    <<"A", "B", "C", "D", "E", "F", "G", "H", "I", "J", "K", "L", "M",
      "N", "O", "P", "Q", "R", "S", "T", "U", "V", "W", "X", "Y", "Z">>
LowerLetters ==
    <<"a", "b", "c", "d", "e", "f", "g", "h", "i", "j", "k", "l", "m",
      "n", "o", "p", "q", "r", "s", "t", "u", "v", "w", "x", "y", "z">>

\* str.lower()
lower(text) ==
    [i \in DOMAIN text |->
        IF \E j \in DOMAIN UpperLetters : UpperLetters[j] = text[i]
        THEN LowerLetters[CHOOSE j \in DOMAIN UpperLetters : UpperLetters[j] = text[i]]
        ELSE text[i]]

\* keyword in text
Contains(text, keyword) ==
    \E i \in 1..(Len(text) - Len(keyword) + 1) :
        SubSeq(text, i, i + Len(keyword) - 1) = keyword

\* The keyword lists of _determine_category
VehicleKeywords ==
    { <<"c", "a", "r">>,
      <<"t", "r", "u", "c", "k">>,
      <<"v", "a", "n">>,
      <<"s", "u", "v">>,
      <<"f", "o", "r", "d">>,
      <<"c", "h", "e", "v", "y">>,
      <<"t", "o", "y", "o", "t", "a">>,
      <<"h", "o", "n", "d", "a">>,
      <<"v", "e", "h", "i", "c", "l", "e">>,
      <<"a", "u", "t", "o">> }
RealEstateKeywords ==
    { <<"r", "e", "a", "l", " ", "e", "s", "t", "a", "t", "e">>,
      <<"p", "r", "o", "p", "e", "r", "t", "y">>,
      <<"l", "a", "n", "d">>,
      <<"h", "o", "u", "s", "e">>,
      <<"h", "o", "m", "e">>,
      <<"a", "p", "a", "r", "t", "m", "e", "n", "t">>,
      <<"c", "o", "n", "d", "o">> }
JewelryKeywords ==
    { <<"j", "e", "w", "e", "l", "r", "y">>,
      <<"w", "a", "t", "c", "h">>,
      <<"r", "o", "l", "e", "x">>,
      <<"g", "o", "l", "d">>,
      <<"s", "i", "l", "v", "e", "r">>,
      <<"d", "i", "a", "m", "o", "n", "d">> }
EquipmentKeywords ==
    { <<"e", "q", "u", "i", "p", "m", "e", "n", "t">>,
      <<"m", "a", "c", "h", "i", "n", "e", "r", "y">>,
      <<"t", "o", "o", "l", "s">>,
      <<"f", "o", "r", "k", "l", "i", "f", "t">>,
      <<"t", "r", "a", "c", "t", "o", "r">> }

\* _determine_category with the equipment test placed before the others.
_determine_category_equipment_first(title, description) ==
    LET text == lower(title \o <<" ">> \o description)
    IN IF \E equip \in EquipmentKeywords : Contains(text, equip) THEN "equipment"
       ELSE IF \E vehicle \in VehicleKeywords : Contains(text, vehicle) THEN "vehicles"
       ELSE IF \E real_estate \in RealEstateKeywords : Contains(text, real_estate)
       THEN "real_estate"
       ELSE IF \E jewelry \in JewelryKeywords : Contains(text, jewelry) THEN "jewelry"
       ELSE "other"

\* _determine_category(title, description)
_determine_category(title, description) ==
    LET text == lower(title \o <<" ">> \o description)
    IN IF \E vehicle \in VehicleKeywords : Contains(text, vehicle) THEN "vehicles"
       ELSE IF \E real_estate \in RealEstateKeywords : Contains(text, real_estate)
       THEN "real_estate"
       ELSE IF \E jewelry \in JewelryKeywords : Contains(text, jewelry) THEN "jewelry"
       ELSE IF \E equip \in EquipmentKeywords : Contains(text, equip) THEN "equipment"
       ELSE "other"

\* "for auction in auctions" of _extract_auctions_with_openai: the location
\* and the images of a record that came without them, and its category
extract_defaults(auction) ==
    auction @@ [location |-> [city |-> NULL, state |-> "TX", zip_code |-> NULL],
                images |-> << >>,
                \* "Determine category if not present"
                category |-> _determine_category(Get(auction, "title", << >>),
                                                 Get(auction, "description", << >>))]

\* _extract_auctions_with_openai: the records of the model's answer, or []
\* when the call or the parsing of its answer raised
_extract_auctions_with_openai(answer, answered, now) ==
    IF ~answered THEN << >>
    ELSE [i \in DOMAIN answer |-> extract_defaults(extract_dates(answer[i], now))]

\* "Ensure end_date is set" of scrape_page
ensure_end_date(auction, now) ==
    IF ~TruthyRaw(Get(auction, "end_date", NONE))
    THEN [k \in DOMAIN auction \cup {"end_date"} |->
            IF k = "end_date" THEN DefaultEndDate(now) ELSE auction[k]]
    ELSE auction

\* "Generate a unique ID if not present", "Set external_id if not present"
\* of scrape_page: the generated id is the source's id, the title's letters
\* and digits and the time of the call (_generate_id).
ensure_ids(auction, now) ==
    LET a1 == auction @@ [auction_id |-> <<"govdeals", Get(auction, "title", ""), now>>]
    IN a1 @@ [external_id |-> a1.auction_id]

\* "If no URL is provided, use the source URL as a fallback" of scrape_page
ensure_url(auction) ==
    IF TruthyText(Get(auction, "url", NULL)) THEN auction
    ELSE [k \in DOMAIN auction \cup {"url"} |->
            IF k = "url" THEN "https://www.govdeals.com" ELSE auction[k]]

\* scrape_page: the records of one page
scrape_page(fetched, answer, answered, now) ==
    IF ~fetched THEN << >>
    ELSE LET auctions == _extract_auctions_with_openai(answer, answered, now)
         IN [i \in DOMAIN auctions |->
                \* auction["source_id"] = ...; auction["source_name"] = ...
                [source_id |-> "govdeals", source_name |-> "GovDeals - Texas"]
                    @@ ensure_end_date(ensure_url(ensure_ids(auctions[i], now)), now)]

\* key = f"{auction.get('title', '')}-{auction.get('url', '')}": the two
\* texts joined by a hyphen
dedup_key(auction) ==
    Get(auction, "title", << >>) \o <<"-">> \o Get(auction, "url", << >>)

\* "for auction in auctions" of _remove_duplicates: [unique_auctions, seen_keys]
RECURSIVE remove_duplicates_loop(_, _, _)
remove_duplicates_loop(auctions, unique_auctions, seen_keys) ==
    IF auctions = << >> THEN unique_auctions
    ELSE LET auction == Head(auctions)
             key == dedup_key(auction)
         IN IF key \notin seen_keys
            THEN remove_duplicates_loop(Tail(auctions), Append(unique_auctions, auction),
                                        seen_keys \cup {key})
            ELSE remove_duplicates_loop(Tail(auctions), unique_auctions, seen_keys)

\* _remove_duplicates(auctions)
_remove_duplicates(auctions) == remove_duplicates_loop(auctions, << >>, {})

\* The records of one source's pages, as scrape_all_sources hands them to
\* _remove_duplicates: titles and urls with and without a hyphen in them, a
\* record without a title, and a price that tells two records of one title
\* and url apart.
MaxPrice == 2
PageTitles == { <<"a">>, <<"a", "-", "b">> }
PageUrls == { <<"c">>, <<"b", "-", "c">> }
PageRecords ==
    {[title |-> t, url |-> u, current_price |-> <<p>>] :
        t \in PageTitles, u \in PageUrls, p \in 1..MaxPrice}
    \cup {[url |-> u, current_price |-> <<1>>] : u \in PageUrls}
MaxPageRecs == 3
SourceAuctions == UNION {[1..k -> PageRecords] : k \in 0..MaxPageRecs}

----------------------------------------------------------------------------
(* Orchestrator (scrapers/main.py) and scheduler (scheduler.py)            *)

\* scrapers = [PublicSurplusScraper(), GastonSheehanScraper(), GovDealsScraper()]
Scrapers ==
    << [source_name |-> "Public Surplus - Texas Facilities Commission",
        source_url |-> "https://www.publicsurplus.com/sms/state,tx/list/current?orgid=871876"],
       [source_name |-> "Gaston and Sheehan Auctioneers",
        source_url |-> "https://www.txauction.com/"],
       [source_name |-> "GovDeals - Texas",
        source_url |-> "https://www.govdeals.com/index.cfm"] >>

\* run_all_scrapers before its first statement, and after "all_auctions = []".
\* scraped is what the scrapers run so far did, file the combined files
\* written.
NoRun == [pc |-> "none", scraped |-> << >>, all_auctions |-> << >>, file |-> << >>]
NewRun == [pc |-> "loop", scraped |-> << >>, all_auctions |-> << >>, file |-> << >>]

\* auction["source_name"] = scraper.source_name;
\* auction["source_url"] = scraper.source_url
tag_auction(auction, scraper) ==
    [k \in DOMAIN auction \cup {"source_name", "source_url"} |->
        IF k = "source_name" THEN scraper.source_name
        ELSE IF k = "source_url" THEN scraper.source_url
        ELSE auction[k]]

\* One pass of "for scraper in scrapers" with no try around it: what the
\* scraper raises ends run_all_scrapers.
run_scraper_no_try(r, scraped) ==
    LET scraper == Scrapers[Len(r.scraped) + 1]
        tagged == [i \in DOMAIN scraped.auctions |-> tag_auction(scraped.auctions[i], scraper)]
    IN IF scraped.raised
       THEN [r EXCEPT !.scraped = Append(@, scraped), !.pc = "raised"]
       ELSE [r EXCEPT !.scraped = Append(@, scraped),
                      !.all_auctions = @ \o tagged,
                      !.pc = IF scraped.saved THEN "loop" ELSE "raised"]

\* One pass of "for scraper in scrapers".  scraped is what the scraper did:
\* scrape() raised, or returned auctions and save_data(auctions) then wrote
\* its file (saved) or raised.  The except block only logs.
run_scraper(r, scraped) ==
    LET scraper == Scrapers[Len(r.scraped) + 1]
        tagged == [i \in DOMAIN scraped.auctions |-> tag_auction(scraped.auctions[i], scraper)]
    IN IF scraped.raised
       THEN [r EXCEPT !.scraped = Append(@, scraped)]
       ELSE \* all_auctions.extend(auctions) comes before scraper.save_data(auctions)
            [r EXCEPT !.scraped = Append(@, scraped),
                      !.all_auctions = @ \o tagged]

\* "Save combined results": the file is written and its path returned, or
\* os.makedirs, open or json.dump raises.
save_combined(r, written) ==
    IF written
    THEN [r EXCEPT !.pc = "returned",
                   !.file = Append(@, [auction_count |-> Len(r.all_auctions),
                                       auctions |-> r.all_auctions])]
    ELSE [r EXCEPT !.pc = "raised"]

\* What a scraper's scrape() can return: records with and without a
\* source_name of their own.
ScrapedRecordA == [title |-> "A"]
ScrapedRecordB == [title |-> "B", source_name |-> "GovDeals"]
MaxScraped == 2     \* records a scraper returns
ScrapedLists ==
    UNION {[1..k -> {ScrapedRecordA, ScrapedRecordB}] : k \in 0..MaxScraped}
ScrapeOutcomes ==
    {[raised |-> TRUE, auctions |-> << >>, saved |-> FALSE]}
    \cup {[raised |-> FALSE, auctions |-> a, saved |-> sv] :
            a \in ScrapedLists, sv \in BOOLEAN}

\* The scheduler's clock counts the sleeps of the loop ("time.sleep(60)");
\* until is the time left to the job's next_run.  The period of
\* schedule.every(3).days is scaled to EveryTicks sleeps.
EveryTicks == 3
MaxJobTicks == 4    \* the longest a job takes

NoScheduler == [pc |-> "none", until |-> 0, active |-> 0, ran |-> FALSE, raised |-> FALSE]

\* max(0, t - d)
TimeLeft(t, d) == IF t > d THEN t - d ELSE 0

\* job() without its try: what run_all_scrapers raises ends run_scheduler.
job_ends_uncaught(s, r, d) ==
    IF r.pc = "raised"
    THEN [s EXCEPT !.pc = "raised", !.active = @ - 1, !.ran = TRUE, !.raised = TRUE]
    ELSE [s EXCEPT !.pc = IF s.pc = "initial_job" THEN "run_pending" ELSE "sleep",
                   !.until = IF s.pc = "initial_job" THEN TimeLeft(@, d) ELSE EveryTicks,
                   !.active = @ - 1, !.ran = TRUE, !.raised = FALSE]

\* The end of job() after d ticks: run_all_scrapers returned, or raised and
\* the except block logged it.  After the initial job the loop begins; after
\* a job of run_pending the schedule sets next_run a period from now and the
\* loop sleeps.
job_ends(s, r, d) ==
    [s EXCEPT !.pc = IF s.pc = "initial_job" THEN "run_pending" ELSE "sleep",
              !.until = IF s.pc = "initial_job" THEN TimeLeft(@, d) ELSE EveryTicks,
              !.active = @ - 1, !.ran = TRUE, !.raised = (r.pc = "raised")]

----------------------------------------------------------------------------
(* Web application (run.py): the handlers that connect by themselves.  Each *)
(* makes its own AuctionDatabase; mine is that object's connections.        *)

\* auction_detail(auction_id), after db.connect(): its statements pass "?"
\* placeholders; dict(cursor.fetchone()) raises TypeError when no row has
\* the id; db.close() is the last statement before the return.
auction_detail(dbt, store, mine, auction_id, ph) ==
    LET hits == Hits(store.auctions, LAMBDA row : SqlEqNum(row.auction_id, <<auction_id>>))
    IN IF dbt = "postgresql"
       THEN [conns |-> mine, rows |-> {}, raised |-> ph]
       ELSE IF hits = {}
       THEN [conns |-> mine, rows |-> {}, raised |-> "TypeError"]
       ELSE [conns |-> close(mine), rows |-> hits, raised |-> "none"]

\* update_zip_code(), after db.connect(): UPDATE user_preferences SET ...
\* WHERE preference_id = 1; conn.commit(); db.close()
update_zip_code(dbt, table, mine, zip_code, max_distance, ph) ==
    IF dbt = "postgresql"
    THEN [conns |-> mine, prefs |-> table, raised |-> ph]
    ELSE [conns |-> close(mine),
          prefs |-> [i \in DOMAIN table |->
                        IF SqlEqNum(table[i].preference_id, <<1>>)
                        THEN [table[i] EXCEPT !.user_zip_code = zip_code,
                                              !.max_distance = max_distance]
                        ELSE table[i]],
          raised |-> "none"]

----------------------------------------------------------------------------
(* Inputs: the records a batch is made of *)

LocAustin == [city |-> "Austin", state |-> "TX", zip_code |-> "78701"]
\* a scraped location without a ZIP code
LocAustinNoZip == [city |-> "Austin", state |-> "TX", zip_code |-> NULL]
\* a location that comes with its coordinates
LocSanAntonio == [city |-> "San Antonio", zip_code |-> "78232",
                  latitude |-> <<29>>, longitude |-> <<-98>>]
LocHouston == [city |-> "Houston", state |-> "TX", zip_code |-> "77002"]
\* a location that comes with one of its two coordinates
LocHoustonLatitudeOnly == [city |-> "Houston", state |-> "TX", zip_code |-> "77002",
                           latitude |-> <<30>>]

Rec(external_id, title, url, end, location) ==
    [source_id |-> "govdeals", external_id |-> external_id, title |-> title,
     url |-> url, end_date |-> IsoFormat(end), location |-> location]

\* a dict without the key k
Without(d, k) == [x \in DOMAIN d \ {k} |-> d[x]]

Records ==
    { Rec("e1", "A", "u1", 3, LocAustin),
      Rec("e1", "B", "u1", 3, LocAustin),
      Without(Without(Rec(NULL, "A", "u1", 4, LocAustin), "external_id"), "location"),
      Without(Without(Rec(NULL, "B", "u2", 4, LocAustin), "external_id"), "location"),
      Without(Rec("e2", NULL, "u2", 4, LocHouston), "title"),
      Rec("e3", "A", "u2", 2, LocAustinNoZip),
      Rec(NULL, "B", "u2", 3, LocSanAntonio),
      [Rec("e4", "A", "u1", 4, LocSanAntonio) EXCEPT !.end_date = IsoFormat(5)]
        @@ [status |-> "ended", images |-> <<"i1", "i1">>],
      Rec("e5", "B", "u2", 3, LocHoustonLatitudeOnly) @@ [category |-> "vehicles"] }

BatchesOf(n) == UNION {[1..k -> Records] : k \in 0..n}

SourceGovDeals == [name |-> "govdeals", website_url |-> "https://www.govdeals.com"]
CategoryVehicles == [name |-> "vehicles"]

\* The JSON files import_data is given: the combined file of run_all_scrapers
\* (auctions only) ...
ScraperFiles(n) == {[auctions |-> b] : b \in BatchesOf(n)}

\* ... or a file that also lists sources and categories, and names its
\* source twice.
DataFiles(n) ==
    ScraperFiles(n)
    \cup {[sources |-> <<SourceGovDeals, SourceGovDeals>>,
           categories |-> <<CategoryVehicles>>,
           auctions |-> b] : b \in BatchesOf(n)}

\* The date texts a page can carry
RawDates ==
    { NONE, EmptyText, <<"number">>, <<"garbage">>,
      <<"%m/%d/%Y %I:%M %p", 2, 1>>, <<"%Y-%m-%d", 2>>, <<"%B %d, %Y", 1>>,
      <<"N days M hours", 1, 1>>, <<"N hours M mins", 1, 30>>,
      <<"dateutil", 2, 0>> }

\* The words a title or a description is made of: with a vehicle keyword in
\* capitals, an equipment, a jewelry and a real-estate keyword, a word that
\* holds "car", the two halves of "real estate", and a word with no keyword.
Words ==
    { <<"T", "r", "u", "c", "k">>,
      <<"t", "r", "a", "c", "t", "o", "r">>,
      <<"G", "O", "L", "D">>,
      <<"l", "a", "n", "d">>,
      <<"C", "a", "r", "p", "e", "t">>,
      <<"r", "e", "a", "l">>,
      <<"e", "s", "t", "a", "t", "e">>,
      <<"l", "a", "m", "p">> }

MaxWords == 2

\* The texts of up to n words, joined by spaces
RECURSIVE Texts(_)
Texts(n) ==
    IF n = 0 THEN {<< >>}
    ELSE Texts(n - 1)
         \cup Words
         \cup {t \o <<" ">> \o w : t \in Texts(n - 1) \ {<< >>}, w \in Words}

Descriptions == {<< >>} \cup Words

TitleTruckTractor == <<"T", "r", "u", "c", "k">> \o <<" ">> \o <<"t", "r", "a", "c", "t", "o", "r">>
TitleLamp == <<"l", "a", "m", "p">>

\* The records the model's answer can hold
RawRecords ==
    {[title |-> TitleTruckTractor, url |-> "u1"],
     [title |-> TitleTruckTractor, url |-> "u1", category |-> "equipment"]}
    \cup {[title |-> TitleTruckTractor, url |-> "u1", end_date |-> d] : d \in RawDates}
    \cup {[title |-> TitleLamp, start_date |-> d, end_date |-> <<"%Y-%m-%d", 2>>] :
            d \in {<<"garbage">>, <<"%m/%d/%Y", 1>>}}

RawBatches == UNION {[1..k -> RawRecords] : k \in 0..MaxRaw}

ZipCodes == {"78232", "00000"}

\* The location dicts geocode_location can be given: each of city, state
\* and zip_code absent, None, empty or a text.
OptionalField(key, text) ==
    {<< >>} \cup {[k \in {key} |-> v] : v \in {NULL, "", text}}

GeoLocations ==
    {c @@ st @@ z : c \in OptionalField("city", "Austin"),
                    st \in OptionalField("state", "TX"),
                    z \in OptionalField("zip_code", "78701")}

\* The whole degrees of Texas the distance is computed between
Latitudes == 28..33
Longitudes == (-100)..(-94)
MaxDistances == {50, 100}

----------------------------------------------------------------------------
(* State *)

VARIABLES
    db_type,     \* AuctionDatabase.db_type
    store,       \* the committed tables
    seqs,        \* the sequences of the SERIAL columns (PostgreSQL)
    now,         \* the clock, in hours
    nops,        \* ingestion calls made so far
    last,        \* the last ingestion call: its name, input and outcome
    resp,        \* the last query: its name, arguments and result
    page,        \* the last scrape_page call: its input, its time and its records
    calc,        \* the last call of a helper that computes: its arguments and result
    conns,       \* the connections that are open, and self.conn of the database object
    prefs,       \* the user_preferences table
    run,         \* run_all_scrapers: its position, what each scraper did, its batch
    sched        \* run_scheduler: its position, the time to the next run, its jobs

vars == <<db_type, store, seqs, now, nops, last, resp, page, calc, conns, prefs,
          run, sched>>

NoCall == [op |-> "none"]

Init ==
    /\ db_type \in DbTypes
    /\ store = EmptyStore
    /\ seqs = InitSeqs
    /\ now = InitNow
    /\ nops = 0
    /\ last = NoCall
    /\ resp = NoCall
    /\ page = NoCall
    /\ calc = NoCall
    /\ conns = NoConns
    /\ prefs = << >>
    /\ run = NoRun
    /\ sched = NoScheduler

\* Does any record of the batch make import_data call the provider?
CallsProvider(data) ==
    \E i \in DOMAIN data.auctions :
        LET a == data.auctions[i]
        IN /\ "location" \in DOMAIN a
           /\ ("latitude" \notin DOMAIN a.location \/ "longitude" \notin DOMAIN a.location)
           /\ geocode_location(a.location, "found").called

\* db.import_data(data_file).  A file that was not read has no records to
\* speak of.  track says what last keeps of the call: nothing ("none"), the
\* call and its outcome ("call"), or these and what the provider did
\* ("provider").
ImportData(track, files, maxops) ==
    /\ resp = NoCall
    /\ calc = NoCall
    /\ nops < maxops
    /\ \E data \in files, io \in IoOutcomes :
       \E geo \in (IF CallsProvider(data) THEN GeoOutcomes ELSE {"found"}) :
       \E ph \in (IF db_type = "postgresql" THEN PlaceholderOutcomes ELSE {"db_error"}) :
       \E r \in {import_data(db_type, store, io, data, geo, ph)} :
             /\ io # "ok" => data = [auctions |-> << >>]
             /\ store' = r.store
             /\ last' = CASE track = "none" -> NoCall
                          [] track = "call" ->
                                [op |-> "import_data", io |-> io, data |-> data,
                                 error |-> r.error, ret |-> r.ret, raised |-> r.raised]
                          [] track = "provider" ->
                                [op |-> "import_data", io |-> io, data |-> data,
                                 geo |-> geo, error |-> r.error,
                                 ret |-> r.ret, raised |-> r.raised]
    /\ nops' = nops + 1
    /\ UNCHANGED <<db_type, seqs, now, resp, page, calc, conns, prefs, run, sched>>

\* scraper.save_auctions_to_database(auctions)
SaveAuctions(track, batches, maxops) ==
    /\ resp = NoCall
    /\ nops < maxops
    /\ \E auctions \in batches :
       \E r \in {save_auctions_to_database(db_type, store, seqs, auctions)} :
             /\ store' = r.store
             /\ seqs' = r.seqs
             /\ last' = IF track = "none" THEN NoCall
                        ELSE [op |-> "save_auctions_to_database", data |-> auctions,
                              ret |-> r.ret, raised |-> r.raised]
    /\ nops' = nops + 1
    /\ UNCHANGED <<db_type, now, resp, page, calc, conns, prefs, run, sched>>

\* db.get_auctions_by_end_date(limit, offset), as the handlers of run.py call it
GetAuctionsByEndDate ==
    /\ resp = NoCall
    /\ \E limit \in 0..MaxLimit, offset \in 0..MaxOffset :
          resp' = [op |-> "get_auctions_by_end_date", limit |-> limit, offset |-> offset,
                   rows |-> get_auctions_by_end_date(db_type, store, now, limit, offset),
                   raised |-> FALSE]
    /\ UNCHANGED <<db_type, store, seqs, now, nops, last, page, calc, conns, prefs, run, sched>>

\* db.get_auctions_by_proximity(zip_code, max_distance, limit, offset)
GetAuctionsByProximity ==
    /\ resp = NoCall
    /\ calc = NoCall
    /\ \E zip_code \in ZipCodes, max_distance \in MaxDistances,
          limit \in 0..MaxLimit, offset \in 0..MaxOffset, geo \in GeoOutcomes :
          LET r == get_auctions_by_proximity(db_type, store, now, zip_code,
                                             max_distance, limit, offset, geo)
          IN resp' = [op |-> "get_auctions_by_proximity", zip_code |-> zip_code,
                      max_distance |-> max_distance, limit |-> limit,
                      offset |-> offset, geo |-> geo,
                      rows |-> r.rows, raised |-> r.raised]
    /\ UNCHANGED <<db_type, store, seqs, now, nops, last, page, calc, conns, prefs, run, sched>>

\* The handler hands the result to its caller (return jsonify(...)).
Respond ==
    /\ resp # NoCall
    /\ resp' = NoCall
    /\ UNCHANGED <<db_type, store, seqs, now, nops, last, page, calc, conns, prefs, run, sched>>

\* Time passes.
Tick ==
    /\ resp = NoCall
    /\ now < MaxNow
    /\ now' = now + 1
    /\ UNCHANGED <<db_type, store, seqs, nops, last, resp, page, calc, conns, prefs, run, sched>>

\* scraper.scrape_page(url, source)
ScrapePage ==
    /\ page = NoCall
    /\ \E fetched \in BOOLEAN, answered \in BOOLEAN, answer \in RawBatches :
          \* a page that was not fetched or not answered has no records to speak of
          /\ (~fetched \/ ~answered) => answer = << >>
          /\ page' = [op |-> "scrape_page", fetched |-> fetched, answered |-> answered,
                   answer |-> answer, at |-> now,
                   auctions |-> scrape_page(fetched, answer, answered, now)]
    /\ UNCHANGED <<db_type, store, seqs, now, nops, last, resp, calc, conns, prefs, run, sched>>

\* scrape_all_sources takes the page's records into the source's list
\* (source_auctions.extend(page_auctions)).
CollectPage ==
    /\ page # NoCall
    /\ page' = NoCall
    /\ UNCHANGED <<db_type, store, seqs, now, nops, last, resp, calc, conns, prefs, run, sched>>

\* conn = db.connect(), as the connection test calls it
Connect ==
    /\ resp = NoCall
    /\ Cardinality(conns.open) < MaxConns
    /\ \E connected \in BOOLEAN : conns' = connect(conns, connected)
    /\ UNCHANGED <<db_type, store, seqs, now, nops, last, resp, page, calc, prefs, run, sched>>

\* db.create_tables(), on the same object
CreateTables ==
    /\ resp = NoCall
    /\ Cardinality(conns.open) < MaxConns
    /\ \E connected \in BOOLEAN :
       \E r \in {create_tables(conns, connected)} :
          /\ conns' = r.conns
          /\ resp' = [op |-> "create_tables", ret |-> r.ret, raised |-> r.raised]
    /\ UNCHANGED <<db_type, store, seqs, now, nops, last, page, calc, prefs, run, sched>>

\* db.close(), on the same object
Close ==
    /\ resp = NoCall
    /\ conns.conn # NONE
    /\ conns' = close(conns)
    /\ UNCHANGED <<db_type, store, seqs, now, nops, last, resp, page, calc, prefs, run, sched>>

\* GET /auction/<auction_id>
AuctionDetail ==
    /\ resp = NoCall
    /\ Cardinality(conns.open) < MaxConns
    /\ \E auction_id \in 1..MaxRecs, connected \in BOOLEAN, ph \in PlaceholderOutcomes :
       \E mine \in {connect([open |-> conns.open, conn |-> NONE], connected)} :
       \E r \in {IF connected
                 THEN auction_detail(db_type, store, mine, auction_id, ph)
                 ELSE [conns |-> mine, rows |-> {}, raised |-> "db_error"]} :
          /\ conns' = [conns EXCEPT !.open = r.conns.open]
          /\ resp' = [op |-> "auction_detail", auction_id |-> auction_id,
                      rows |-> r.rows, raised |-> r.raised]
    /\ UNCHANGED <<db_type, store, seqs, now, nops, last, page, calc, prefs, run, sched>>

\* POST /update-zip-code
UpdateZipCode ==
    /\ resp = NoCall
    /\ Cardinality(conns.open) < MaxConns
    /\ \E zip_code \in ZipCodes \cup {""}, max_distance \in MaxDistances,
          connected \in BOOLEAN, ph \in PlaceholderOutcomes :
       \E mine \in {connect([open |-> conns.open, conn |-> NONE], connected)} :
       \E r \in {IF zip_code = ""
                 THEN \* "if not zip_code: return redirect(url_for('index'))"
                      [conns |-> [open |-> conns.open, conn |-> NONE],
                       prefs |-> prefs, raised |-> "none"]
                 ELSE IF connected
                 THEN update_zip_code(db_type, prefs, mine, zip_code, max_distance, ph)
                 ELSE [conns |-> mine, prefs |-> prefs, raised |-> "db_error"]} :
          /\ conns' = [conns EXCEPT !.open = r.conns.open]
          /\ prefs' = r.prefs
          /\ resp' = [op |-> "update_zip_code", zip_code |-> zip_code,
                      max_distance |-> max_distance, raised |-> r.raised]
    /\ UNCHANGED <<db_type, store, seqs, now, nops, last, page, calc, run, sched>>

\* scraper._determine_category(title, description)
DetermineCategory ==
    /\ calc = NoCall
    /\ \E title \in Texts(MaxWords), description \in Descriptions :
          calc' = [op |-> "_determine_category", title |-> title,
                   description |-> description,
                   category |-> _determine_category(title, description)]
    /\ UNCHANGED <<db_type, store, seqs, now, nops, last, resp, page, conns, prefs, run, sched>>

\* scraper._remove_duplicates(source_auctions)
RemoveDuplicates ==
    /\ calc = NoCall
    /\ \E auctions \in SourceAuctions :
          calc' = [op |-> "_remove_duplicates", auctions |-> auctions,
                   unique_auctions |-> _remove_duplicates(auctions)]
    /\ UNCHANGED <<db_type, store, seqs, now, nops, last, resp, page, conns, prefs, run, sched>>

\* db._calculate_distance(lat1, lon1, lat2, lon2)
CalculateDistance ==
    /\ calc = NoCall
    /\ \E lat1 \in Latitudes, lon1 \in Longitudes, lat2 \in Latitudes, lon2 \in Longitudes :
          calc' = [op |-> "_calculate_distance",
                   lat1 |-> lat1, lon1 |-> lon1, lat2 |-> lat2, lon2 |-> lon2,
                   miles |-> _calculate_distance(lat1, lon1, lat2, lon2)]
    /\ UNCHANGED <<db_type, store, seqs, now, nops, last, resp, page, conns, prefs, run, sched>>

\* db.geocode_location(location)
GeocodeLocation ==
    /\ calc = NoCall
    /\ resp = NoCall
    /\ \E location \in GeoLocations, geo \in GeoOutcomes :
       \E r \in {geocode_location(location, geo)} :
          calc' = [op |-> "geocode_location", location |-> location, geo |-> geo,
                   lat |-> r.lat, lon |-> r.lon, called |-> r.called, raised |-> r.raised]
    /\ UNCHANGED <<db_type, store, seqs, now, nops, last, resp, page, conns, prefs, run, sched>>

\* The caller takes the value the helper returned.
ReturnValue ==
    /\ calc # NoCall
    /\ calc' = NoCall
    /\ UNCHANGED <<db_type, store, seqs, now, nops, last, resp, page, conns, prefs, run, sched>>

\* run_scheduler(): schedule.every(3).days.do(job)
RunScheduler ==
    /\ sched.pc = "none"
    /\ sched' = [sched EXCEPT !.pc = "scheduled", !.until = EveryTicks]
    /\ UNCHANGED <<db_type, store, seqs, now, nops, last, resp, page, calc, conns, prefs, run>>

\* "Run the job immediately for the first time": job() begins
InitialJob ==
    /\ sched.pc = "scheduled"
    /\ sched' = [sched EXCEPT !.pc = "initial_job", !.active = @ + 1]
    /\ run' = NewRun
    /\ UNCHANGED <<db_type, store, seqs, now, nops, last, resp, page, calc, conns, prefs>>

\* schedule.run_pending(): the job begins when its next_run has come
RunPending ==
    /\ sched.pc = "run_pending"
    /\ IF sched.until = 0
       THEN /\ sched' = [sched EXCEPT !.pc = "pending_job", !.active = @ + 1]
            /\ run' = NewRun
       ELSE /\ sched' = [sched EXCEPT !.pc = "sleep"]
            /\ run' = run
    /\ UNCHANGED <<db_type, store, seqs, now, nops, last, resp, page, calc, conns, prefs>>

\* time.sleep(60)
Sleep ==
    /\ sched.pc = "sleep"
    /\ sched' = [sched EXCEPT !.pc = "run_pending", !.until = TimeLeft(@, 1)]
    /\ UNCHANGED <<db_type, store, seqs, now, nops, last, resp, page, calc, conns, prefs, run>>

\* One pass of the loop of run_all_scrapers
RunScraper ==
    /\ run.pc = "loop"
    /\ Len(run.scraped) < Len(Scrapers)
    /\ \E scraped \in ScrapeOutcomes : run' = run_scraper(run, scraped)
    /\ UNCHANGED <<db_type, store, seqs, now, nops, last, resp, page, calc, conns, prefs, sched>>

\* The end of run_all_scrapers
SaveCombined ==
    /\ run.pc = "loop"
    /\ Len(run.scraped) = Len(Scrapers)
    /\ \E written \in BOOLEAN : run' = save_combined(run, written)
    /\ UNCHANGED <<db_type, store, seqs, now, nops, last, resp, page, calc, conns, prefs, sched>>

\* The end of job()
JobEnds ==
    /\ sched.pc \in {"initial_job", "pending_job"}
    /\ run.pc \in {"returned", "raised"}
    /\ \E d \in 0..MaxJobTicks : sched' = job_ends(sched, run, d)
    /\ UNCHANGED <<db_type, store, seqs, now, nops, last, resp, page, calc, conns, prefs, run>>

\* Ingestion, with the history of the last call.
Next ==
    \/ ImportData("call", DataFiles(MaxRecs), MaxOps)
    \/ SaveAuctions("call", BatchesOf(MaxRecs), MaxOps)

Spec == Init /\ [][Next]_vars

\* One ingestion run of the scheduled job, and the read queries.
NextQuery ==
    \/ ImportData("none", ScraperFiles(MaxQueryRecs), MaxQueryOps)
    \/ SaveAuctions("none", BatchesOf(MaxQueryRecs), MaxQueryOps)
    \/ GetAuctionsByEndDate
    \/ GetAuctionsByProximity
    \/ Respond
    \/ Tick

SpecQuery == Init /\ [][NextQuery]_vars

\* The normalizer.
NextNorm ==
    \/ ScrapePage
    \/ CollectPage
    \/ Tick

SpecNorm == Init /\ [][NextNorm]_vars

\* The connection test and the web application, after one ingestion run.
NextWeb ==
    \/ ImportData("none", ScraperFiles(MaxWebRecs), MaxQueryOps)
    \/ Connect
    \/ CreateTables
    \/ Close
    \/ AuctionDetail
    \/ UpdateZipCode
    \/ Respond

SpecWeb == Init /\ [][NextWeb]_vars

\* The helpers that compute a value from their arguments alone.
NextCalc ==
    \/ DetermineCategory
    \/ CalculateDistance
    \/ RemoveDuplicates
    \/ ReturnValue

SpecCalc == Init /\ [][NextCalc]_vars

\* The geocoder adapter and its callers.
NextGeo ==
    \/ GeocodeLocation
    \/ ReturnValue
    \/ ImportData("provider", ScraperFiles(MaxWebRecs), MaxQueryOps)
    \/ GetAuctionsByProximity
    \/ Respond

SpecGeo == Init /\ [][NextGeo]_vars

\* The scheduler and the jobs it runs.
NextSched ==
    \/ RunScheduler
    \/ InitialJob
    \/ RunScraper
    \/ SaveCombined
    \/ JobEnds
    \/ RunPending
    \/ Sleep

SpecSched == Init /\ [][NextSched]_vars

\* run_scheduler is one thread that keeps running, and a scraper or a file
\* write returns or raises in the end: each step that can be taken is taken.
SpecSchedFair == SpecSched /\ WF_vars(NextSched)

----------------------------------------------------------------------------
(* Ingestion claims, checked under Spec *)

\* The numbers of Source, Location, Auction and Image rows of a store.
RowCounts(s) ==
    <<Len(s.sources), Len(s.locations), Len(s.auctions), Len(s.images)>>

\* The records of an ingestion call.
BatchOf(call) == IF call.op = "import_data" THEN call.data.auctions ELSE call.data

\* The source name an Auction row stands under.
SourceNameOf(row) ==
    IF db_type = "sqlite" THEN row.source_id
    ELSE LET S == {i \in DOMAIN store.sources :
                     SqlEqNum(store.sources[i].source_id, row.source_id)}
         IN IF S = {} THEN NULL ELSE store.sources[Min(S)].name

\* The Auction rows that hold the record a: its source, title and url.
RowsHolding(a) ==
    {i \in DOMAIN store.auctions :
        /\ SourceNameOf(store.auctions[i]) = a.source_id
        /\ store.auctions[i].title = a.title
        /\ store.auctions[i].url = a.url}

\* The Auction rows of a (source, external_id) pair.
RowsOfKey(source, external_id) ==
    {i \in DOMAIN store.auctions :
        /\ SourceNameOf(store.auctions[i]) = source
        /\ SqlEq(store.auctions[i].external_id, external_id)}

HasExternalId(a) ==
    "external_id" \in DOMAIN a /\ a.external_id # NULL /\ a.external_id # ""

\* The last ingestion call returned and reported records ingested.
ReportedIngestion ==
    last.op # "none" /\ last.raised = "none" /\ last.ret # <<0>>

\* The last ingestion call ran on the backend whose placeholders it writes.
OnItsBackend ==
    \/ last.op = "import_data" /\ db_type = "sqlite"
    \/ last.op = "save_auctions_to_database" /\ db_type = "postgresql"

\* A record with a title and a location that names its city.
Complete(a) ==
    /\ "title" \in DOMAIN a
    /\ "location" \in DOMAIN a
    /\ TruthyText(Get(a.location, "city", NULL))

\* C1: an ingestion entry point (import_data, save_auctions_to_database) run
\* a second time on the batch it has just been run on leaves the numbers of
\* Source, Location, Auction and Image rows as the first run left them: the
\* second run inserts no row.
C1_SecondRunInsertsNothing ==
    [][(/\ last.op # "none"
        /\ last'.op = last.op
        /\ last'.data = last.data
        /\ nops' = nops + 1)
       => RowCounts(store') = RowCounts(store)]_vars

\* C2: after an ingestion call that reported records ingested, on a batch of
\* two records of the same source with the same non-empty external_id and
\* different titles, the store holds exactly one Auction row for that
\* (source, external_id), and its title is the second record's.
C2_LastTitleWins ==
    (/\ ReportedIngestion
     /\ Len(BatchOf(last)) = 2
     /\ \A i \in 1..2 : HasExternalId(BatchOf(last)[i]) /\ "title" \in DOMAIN BatchOf(last)[i]
     /\ BatchOf(last)[1].source_id = BatchOf(last)[2].source_id
     /\ BatchOf(last)[1].external_id = BatchOf(last)[2].external_id
     /\ BatchOf(last)[1].title # BatchOf(last)[2].title)
    => LET b == BatchOf(last)[2]
           rows == RowsOfKey(b.source_id, b.external_id)
       IN /\ Cardinality(rows) = 1
          /\ \A i \in rows : store.auctions[i].title = b.title

\* C3: after an ingestion call that reported records ingested, on a batch of
\* two records of the same source that have no external_id and differ in
\* (title, url), the store holds two separate Auction rows, one for each
\* record.
C3_FallbackKeySeparatesRecords ==
    (/\ ReportedIngestion
     /\ Len(BatchOf(last)) = 2
     /\ \A i \in 1..2 : /\ "external_id" \notin DOMAIN BatchOf(last)[i]
                        /\ "title" \in DOMAIN BatchOf(last)[i]
     /\ BatchOf(last)[1].source_id = BatchOf(last)[2].source_id
     /\ <<BatchOf(last)[1].title, BatchOf(last)[1].url>>
          # <<BatchOf(last)[2].title, BatchOf(last)[2].url>>)
    => \E i \in RowsHolding(BatchOf(last)[1]), j \in RowsHolding(BatchOf(last)[2]) : i # j

\* C4: an ingestion call, on the backend it is written for, on a batch in
\* which exactly one record is bad (it has no title) and every other record
\* is complete lets no exception escape and leaves every other record of the
\* batch in the store.
C4_BadRecordIsSkipped ==
    (/\ OnItsBackend
     /\ Cardinality({i \in DOMAIN BatchOf(last) : "title" \notin DOMAIN BatchOf(last)[i]}) = 1
     /\ \A i \in DOMAIN BatchOf(last) :
           "title" \in DOMAIN BatchOf(last)[i] => Complete(BatchOf(last)[i]))
    => /\ last.raised = "none"
       /\ \A i \in DOMAIN BatchOf(last) :
             "title" \in DOMAIN BatchOf(last)[i] => RowsHolding(BatchOf(last)[i]) # {}

----------------------------------------------------------------------------
(* Query claims, checked under SpecQuery *)

\* The point the provider knows for the anchor ZIP of the query in resp.
AnchorPoint == ProviderTable(LocationStr([zip_code |-> resp.zip_code]))

\* The geocoder resolves the anchor ZIP of the query in resp.
AnchorResolved ==
    resp.geo = "found" /\ AnchorPoint.lat # NONE /\ AnchorPoint.lon # NONE

\* The Location row the ingestion linked an Auction row to (0: none): the
\* row whose rowid cursor.lastrowid gave, or whose location_id RETURNING gave.
LocationOf(a) ==
    IF a.location_id = NONE THEN 0
    ELSE IF db_type = "sqlite"
    THEN (IF a.location_id[1] \in DOMAIN store.locations THEN a.location_id[1] ELSE 0)
    ELSE LET S == {i \in DOMAIN store.locations :
                     SqlEqNum(store.locations[i].location_id, a.location_id)}
         IN IF S = {} THEN 0 ELSE Min(S)

HasCoordinates(a) ==
    /\ LocationOf(a) # 0
    /\ store.locations[LocationOf(a)].latitude # NONE
    /\ store.locations[LocationOf(a)].longitude # NONE

DistanceFromAnchor(a) ==
    _calculate_distance(AnchorPoint.lat[1], AnchorPoint.lon[1],
                        store.locations[LocationOf(a)].latitude[1],
                        store.locations[LocationOf(a)].longitude[1])

\* The live auctions with coordinates within max_distance of the anchor.
InRange ==
    {i \in LiveRows(db_type, store, now) :
        /\ HasCoordinates(store.auctions[i])
        /\ DistanceFromAnchor(store.auctions[i]) <= resp.max_distance}

\* A set of rowids in insertion order.
RECURSIVE InInsertionOrder(_)
InInsertionOrder(S) ==
    IF S = {} THEN << >> ELSE <<Min(S)>> \o InInsertionOrder(S \ {Min(S)})

\* The auctions in range by ascending distance, ties in insertion order.
NearbyList ==
    SeqMap(StableSort(SeqMap(InInsertionOrder(InRange), LAMBDA i :
                        [rowid |-> i, key |-> DistanceFromAnchor(store.auctions[i])]), << >>),
           LAMBDA r : [rowid |-> r.rowid, distance |-> r.key])

\* C5: when the anchor ZIP geocodes, an unpaginated proximity query (offset
\* 0, limit no less than the number of auctions in range) returns exactly the
\* live auctions whose location has both coordinates and lies within
\* max_distance, by ascending distance with ties in insertion order.
C5_ProximityFilter ==
    (/\ resp.op = "get_auctions_by_proximity"
     /\ AnchorResolved
     /\ resp.offset = 0
     /\ resp.limit >= Cardinality(InRange))
    => /\ ~resp.raised
       /\ {resp.rows[k].rowid : k \in DOMAIN resp.rows} = InRange
       /\ resp.rows = NearbyList

\* C6: when the anchor ZIP geocodes, the page a proximity query returns for
\* (limit, offset) is elements offset .. offset+limit-1 of the full list of
\* auctions in range sorted by distance.
C6_ProximityPagination ==
    (resp.op = "get_auctions_by_proximity" /\ AnchorResolved)
    => resp.rows = Slice(NearbyList, resp.offset, resp.limit)

\* C7: when the geocoder does not resolve the anchor ZIP (no result, a
\* timeout or a provider error), the proximity query returns an empty list
\* and raises nothing.
C7_UnresolvedAnchorGivesEmptyList ==
    (resp.op = "get_auctions_by_proximity" /\ ~AnchorResolved)
    => resp.rows = << >> /\ ~resp.raised

\* A proximity query whose anchor lookup timed out, over a store that holds
\* a live auction with coordinates, answered with the empty list.
C7_Witness ==
    /\ resp.op = "get_auctions_by_proximity"
    /\ resp.geo = "timed_out"
    /\ \E i \in LiveRows(db_type, store, now) : HasCoordinates(store.auctions[i])
    /\ resp.rows = << >>
    /\ ~resp.raised

\* The live auctions by ascending end date, ties in insertion order.
ChronologicalList ==
    SeqMap(StableSort(SeqMap(InInsertionOrder(LiveRows(db_type, store, now)), LAMBDA i :
                        [rowid |-> i, key |-> ParseIso(store.auctions[i].end_date)]), << >>),
           LAMBDA r : r.rowid)

\* C8: the page get_auctions_by_end_date returns for (limit, offset) is
\* elements offset .. offset+limit-1 of the live auctions in ascending
\* end_date order, auctions with equal end dates in insertion order.
C8_ChronologicalSort ==
    resp.op = "get_auctions_by_end_date"
    => resp.rows = Slice(ChronologicalList, resp.offset, resp.limit)

\* The rowids a query returned.
ReturnedRowids ==
    IF resp.op = "get_auctions_by_end_date"
    THEN {resp.rows[k] : k \in DOMAIN resp.rows}
    ELSE {resp.rows[k].rowid : k \in DOMAIN resp.rows}

\* C9: neither read query returns an auction whose status is not active or
\* whose stored end_date is not strictly later than the time of the query.
C9_OnlyLiveAuctions ==
    resp.op \in {"get_auctions_by_end_date", "get_auctions_by_proximity"}
    => \A i \in ReturnedRowids :
          /\ store.auctions[i].status = "active"
          /\ ParseIso(store.auctions[i].end_date) > now

----------------------------------------------------------------------------
(* Normalizer claims, checked under SpecNorm *)

\* A raw record carries no end date, or one that no parser accepts.
NoUsableEndDate(raw) ==
    \/ "end_date" \notin DOMAIN raw
    \/ ~TruthyRaw(raw.end_date)
    \/ raw.end_date[1] \in {"number", "garbage"}

\* C10: every record scrape_page produces has a non-null end_date; when the
\* raw record has no end date, or one that no parser accepts, it is the
\* default horizon: the time of the call plus 7 days.
C10_EndDateAlwaysSet ==
    page.op = "scrape_page"
    => \A i \in DOMAIN page.auctions :
          /\ "end_date" \in DOMAIN page.auctions[i]
          /\ page.auctions[i].end_date # NONE
          /\ page.auctions[i].end_date # EmptyText
          /\ NoUsableEndDate(page.answer[i])
             => page.auctions[i].end_date = DefaultEndDate(page.at)

\* A page with one record whose end date no parser accepts and one without
\* an end date, after time has passed: both got the default horizon.
C10_Witness ==
    /\ page.op = "scrape_page"
    /\ page.at > InitNow
    /\ Len(page.auctions) = 2
    /\ "end_date" \in DOMAIN page.answer[1] /\ page.answer[1].end_date = <<"garbage">>
    /\ "end_date" \notin DOMAIN page.answer[2]
    /\ \A i \in 1..2 : page.auctions[i].end_date = DefaultEndDate(page.at)

----------------------------------------------------------------------------
(* Category inference *)

\* The groups in their order of precedence, with their keywords
Precedence == <<"vehicles", "real_estate", "jewelry", "equipment">>

KeywordsOf(group) ==
    CASE group = "vehicles" -> VehicleKeywords
      [] group = "real_estate" -> RealEstateKeywords
      [] group = "jewelry" -> JewelryKeywords
      [] group = "equipment" -> EquipmentKeywords

\* The lower-cased title + " " + description of the call
CalcText == lower(calc.title \o <<" ">> \o calc.description)

\* The places in the order of precedence whose group has a keyword in the text
Matching == {i \in DOMAIN Precedence : \E k \in KeywordsOf(Precedence[i]) : Contains(CalcText, k)}

\* C11: _determine_category returns the first group, in the order vehicles,
\* real_estate, jewelry, equipment, that has a keyword occurring in the
\* lower-cased title + " " + description, and "other" when no group has one;
\* a text with both "truck" and "tractor" gives "vehicles" wherever they stand.
C11_CategoryPrecedence ==
    calc.op = "_determine_category"
    => /\ Matching = {} => calc.category = "other"
       /\ Matching # {} => calc.category = Precedence[Min(Matching)]
       /\ (Contains(CalcText, <<"t", "r", "u", "c", "k">>)
           /\ Contains(CalcText, <<"t", "r", "a", "c", "t", "o", "r">>))
          => calc.category = "vehicles"

\* A title with "tractor" before "Truck": the category is "vehicles".
C11_Witness ==
    /\ calc.op = "_determine_category"
    /\ calc.title = <<"t", "r", "a", "c", "t", "o", "r", " ", "T", "r", "u", "c", "k">>
    /\ calc.category = "vehicles"

----------------------------------------------------------------------------
(* Errors before the first record, checked under Spec *)

\* C12: when import_data cannot open its file, cannot parse it, or cannot
\* connect to the store, it leaves the tables as they were, lets no
\* exception escape and returns 0.
C12_FatalErrorReturnsZero ==
    [][(/\ nops' = nops + 1
        /\ last'.op = "import_data"
        /\ last'.io # "ok")
       => /\ store' = store
          /\ last'.raised = "none"
          /\ last'.ret = <<0>>]_vars

----------------------------------------------------------------------------
(* Connections and preferences, checked under SpecWeb *)

\* C13: after any sequence of calls (connect, create_tables, close, the
\* handlers, import_data) every connection that is open is the one the
\* database object still holds in self.conn: none is left that nothing
\* will close.
C13_NoConnectionLeak ==
    conns.open \subseteq (IF conns.conn = NONE THEN {} ELSE {conns.conn[1]})

\* C14: update_zip_code with a non-empty ZIP code, once it has returned,
\* leaves exactly one UserPreference row, holding the ZIP code and the
\* radius submitted; with an empty ZIP code it writes nothing.
C14_PreferenceOverwritten ==
    [][(/\ resp.op = "none"
        /\ resp'.op = "update_zip_code"
        /\ resp'.raised = "none")
       => IF resp'.zip_code = ""
          THEN prefs' = prefs
          ELSE /\ Len(prefs') = 1
               /\ prefs'[1].user_zip_code = resp'.zip_code
               /\ prefs'[1].max_distance = resp'.max_distance]_vars

----------------------------------------------------------------------------
(* Distance, checked under SpecCalc *)

\* C15: the distance from A to B is the distance from B to A, and the
\* distance from a point to itself is 0.
C15_DistanceSymmetric ==
    calc.op = "_calculate_distance"
    => /\ calc.miles = _calculate_distance(calc.lat2, calc.lon2, calc.lat1, calc.lon1)
       /\ (calc.lat1 = calc.lat2 /\ calc.lon1 = calc.lon2) => calc.miles = 0

\* Two points that differ in latitude and in longitude, some miles apart.
C15_Witness ==
    /\ calc.op = "_calculate_distance"
    /\ calc.lat1 # calc.lat2
    /\ calc.lon1 # calc.lon2
    /\ calc.miles > 0
    /\ calc.miles = _calculate_distance(calc.lat2, calc.lon2, calc.lat1, calc.lon1)

----------------------------------------------------------------------------
(* The update of an existing Auction row, checked under Spec *)

\* C16: an ingestion call, on the backend it is written for, of one record
\* whose (source, external_id) already has an Auction row sets that row's
\* title, end date, url and status to the record's values, leaves its
\* source and external_id as they were, and leaves every other Auction row
\* as it was.
C16_UpdateFrame ==
    [][(/\ nops' = nops + 1
        /\ OnItsBackend'
        /\ last'.raised = "none"
        /\ Len(BatchOf(last')) = 1
        /\ HasExternalId(BatchOf(last')[1])
        /\ {"title", "url", "end_date"} \subseteq DOMAIN BatchOf(last')[1]
        /\ RowsOfKey(BatchOf(last')[1].source_id, BatchOf(last')[1].external_id) # {})
       => LET a == BatchOf(last')[1]
              rows == RowsOfKey(a.source_id, a.external_id)
          IN /\ \A i \in rows :
                   /\ store'.auctions[i].title = a.title
                   /\ store'.auctions[i].end_date = a.end_date
                   /\ store'.auctions[i].url = a.url
                   /\ store'.auctions[i].status = Get(a, "status", "active")
                   /\ store'.auctions[i].source_id = store.auctions[i].source_id
                   /\ store'.auctions[i].external_id = store.auctions[i].external_id
             /\ \A i \in DOMAIN store.auctions \ rows :
                   store'.auctions[i] = store.auctions[i]]_vars

----------------------------------------------------------------------------
(* Location rows, checked under Spec *)

\* C17: after any sequence of ingestion calls no two Location rows have the
\* same (city, state, zip_code), a ZIP code or a city that is absent
\* counting as a value like any other.
C17_LocationReuse ==
    \A i, j \in DOMAIN store.locations :
        i # j => <<store.locations[i].city, store.locations[i].state,
                   store.locations[i].zip_code>>
                 # <<store.locations[j].city, store.locations[j].state,
                     store.locations[j].zip_code>>

\* C18: every Location row has its latitude and its longitude both present
\* or both absent, whatever the input location supplied and whatever the
\* geocoder did.
C18_CoordinatePair ==
    \A i \in DOMAIN store.locations :
        (store.locations[i].latitude = NONE) <=> (store.locations[i].longitude = NONE)

----------------------------------------------------------------------------
(* Image rows, checked under Spec *)

----------------------------------------------------------------------------
(* Category rows, checked under Spec *)

\* The Category rows an Auction row refers to, by category_id or by rowid
CategoryRowsOf(row) ==
    {i \in DOMAIN store.categories :
        /\ row.category_id # NONE
        /\ \/ SqlEqNum(store.categories[i].category_id, row.category_id)
           \/ row.category_id = <<i>>}

\* C20: after an ingestion call on the backend it is written for, every
\* record of the batch that carries a category name and is in the store has
\* an Auction row that refers to a Category row of that name; and no two
\* Category rows have the same name.
C20_CategoryResolved ==
    /\ (OnItsBackend /\ last.raised = "none")
       => \A k \in DOMAIN BatchOf(last) :
             LET a == BatchOf(last)[k]
             IN ("category" \in DOMAIN a /\ "title" \in DOMAIN a /\ RowsHolding(a) # {})
                => \E i \in RowsHolding(a) :
                   \E c \in CategoryRowsOf(store.auctions[i]) :
                      store.categories[c].name = a.category
    /\ \A i, j \in DOMAIN store.categories :
          i # j => store.categories[i].name # store.categories[j].name

----------------------------------------------------------------------------
(* Geocoder adapter, checked under SpecGeo *)

\* The location of the call has neither a city nor a ZIP code.
NoCityNoZip ==
    /\ ~TruthyText(Get(calc.location, "city", NULL))
    /\ ~TruthyText(Get(calc.location, "zip_code", NULL))

\* C21: geocode_location given a location with neither a city nor a ZIP
\* code returns (None, None) and does not call the provider, whatever the
\* state field holds.
C21_NoProviderCallWithoutPlace ==
    (calc.op = "geocode_location" /\ NoCityNoZip)
    => /\ ~calc.called
       /\ calc.lat = NONE /\ calc.lon = NONE
       /\ ~calc.raised

\* A location that has its state only, with a provider that would answer.
C21_Witness ==
    /\ calc.op = "geocode_location"
    /\ calc.location = [state |-> "TX"]
    /\ calc.geo = "found"
    /\ ~calc.called
    /\ calc.lat = NONE

\* What the provider does when it fails
GeoFailures == {"timed_out", "service_error"}

\* The records of the batch whose location names a city and comes without
\* coordinates
ToGeocode ==
    {k \in DOMAIN BatchOf(last) :
        /\ "title" \in DOMAIN BatchOf(last)[k]
        /\ "location" \in DOMAIN BatchOf(last)[k]
        /\ TruthyText(Get(BatchOf(last)[k].location, "city", NULL))
        /\ {"latitude", "longitude"} \cap DOMAIN BatchOf(last)[k].location = {}}

\* No record of the batch brings a coordinate of its own, and each has its
\* title.
NoneBringsCoordinates(batch) ==
    \A k \in DOMAIN batch :
        /\ "title" \in DOMAIN batch[k]
        /\ "location" \in DOMAIN batch[k]
           => {"latitude", "longitude"} \cap DOMAIN batch[k].location = {}

\* C22: a provider timeout or provider error makes geocode_location return
\* (None, None) and raise nothing; a proximity query in which the provider
\* fails returns the empty list; an import_data run on SQLite in which the
\* provider fails, on records that have their title and bring no coordinate,
\* returns without an exception, every Location row it adds has neither a
\* latitude nor a longitude, and the city of each record is in the store.
C22_ProviderFailureIsNotFound ==
    /\ []((calc.op = "geocode_location" /\ calc.geo \in GeoFailures)
          => calc.lat = NONE /\ calc.lon = NONE /\ ~calc.raised)
    /\ []((resp.op = "get_auctions_by_proximity" /\ resp.geo \in GeoFailures)
          => resp.rows = << >> /\ ~resp.raised)
    /\ [][(/\ nops' = nops + 1
           /\ last'.op = "import_data" /\ db_type = "sqlite"
           /\ last'.io = "ok" /\ last'.geo \in GeoFailures
           /\ NoneBringsCoordinates(BatchOf(last')))
          => /\ last'.raised = "none"
             /\ \A i \in DOMAIN store'.locations :
                   i > Len(store.locations)
                   => /\ store'.locations[i].latitude = NONE
                      /\ store'.locations[i].longitude = NONE
             /\ \A k \in ToGeocode' :
                   \E i \in DOMAIN store'.locations :
                      store'.locations[i].city = BatchOf(last')[k].location.city]_vars

\* An import_data run during which the provider timed out: the record is in
\* the store, its location without coordinates.
C22_Witness ==
    /\ last.op = "import_data" /\ db_type = "sqlite"
    /\ last.geo = "timed_out"
    /\ last.ret = <<1>>
    /\ ToGeocode # {}
    /\ Len(store.locations) = 1
    /\ store.locations[1].latitude = NONE /\ store.locations[1].longitude = NONE

----------------------------------------------------------------------------
(* Dates other than the end date, checked under SpecNorm *)

\* C23: a record whose start_date text matches no format and is refused by
\* the flexible parser leaves scrape_page with start_date absent (None):
\* not the text as it came, and not a date put in its place.
C23_UnparsedStartDateIsAbsent ==
    page.op = "scrape_page"
    => \A i \in DOMAIN page.auctions :
          ("start_date" \in DOMAIN page.answer[i]
           /\ page.answer[i].start_date = <<"garbage">>)
          => page.auctions[i].start_date = NONE

----------------------------------------------------------------------------
(* Source rows, checked under Spec *)

\* C24: after any sequence of ingestion calls, one after the other, no two
\* Source rows have the same name, also when a batch names its source more
\* than once.
C24_SourceNamesUnique ==
    \A i, j \in DOMAIN store.sources :
        i # j => store.sources[i].name # store.sources[j].name

\* A second import_data call on a file that lists the source govdeals
\* twice: the store holds one Source row.
C24_Witness ==
    /\ nops = 2
    /\ last.op = "import_data" /\ last.io = "ok" /\ last.raised = "none"
    /\ "sources" \in DOMAIN last.data
    /\ Len(last.data.sources) = 2
    /\ last.data.sources[1].name = last.data.sources[2].name
    /\ Len(store.sources) = 1
    /\ store.sources[1].name = last.data.sources[1].name

----------------------------------------------------------------------------
(* The transaction of import_data, checked under Spec *)

\* C26: an import_data call in which a database error is raised while a
\* record is processed leaves the store exactly as it was before the call,
\* returns 0 and lets no exception escape.
C26_AllOrNothing ==
    [][(/\ nops' = nops + 1
        /\ last'.op = "import_data"
        /\ last'.io = "ok"
        /\ last'.error = "db_error")
       => /\ store' = store
          /\ last'.ret = <<0>>
          /\ last'.raised = "none"]_vars

\* An import_data call on SQLite whose first record is complete and new and
\* whose second record raised a database error: it returned 0 and the first
\* record is not in the store.
C26_Witness ==
    /\ last.op = "import_data" /\ db_type = "sqlite"
    /\ last.io = "ok" /\ last.error = "db_error"
    /\ Len(last.data.auctions) = 2
    /\ Complete(last.data.auctions[1])
    /\ RowsHolding(last.data.auctions[1]) = {}
    /\ last.ret = <<0>>

----------------------------------------------------------------------------
(* The owning source of an Auction row, checked under Spec *)

\* C25: after an import_data run, the source_id of every Auction row is the
\* source_id of a Source row of the store.
C25_SourceIdIsAnExistingSource ==
    last.op = "import_data"
    => \A i \in DOMAIN store.auctions :
          \E j \in DOMAIN store.sources :
             /\ store.sources[j].source_id # NONE
             /\ store.sources[j].source_id = store.auctions[i].source_id

----------------------------------------------------------------------------
(* The per-record transactions of save_auctions_to_database, checked under *)
(* Spec                                                                    *)

\* The store, sequences and count after the first k records of the batch b,
\* started on the store t and the sequences sq.
AfterRecords(t, sq, b, k) ==
    save_records(db_type, [store |-> t, seqs |-> sq, count |-> 0], SubSeq(b, 1, k))

\* The numbers of the records of b whose try block ran to its commit.
CommittedRecords(t, sq, b) ==
    {k \in DOMAIN b :
        save_record_try(db_type, AfterRecords(t, sq, b, k - 1), b[k]).st = "ok"}

\* C27: in a save_auctions_to_database call every record is its own
\* transaction: a record whose processing raises leaves the store as the
\* records before it left it, a record that does not raise leaves all its
\* writes on top of that store, whatever happened to the records before it,
\* and the call returns the number of records that did not raise.
C27_PerRecordCommit ==
    [][(/\ nops' = nops + 1
        /\ last'.op = "save_auctions_to_database")
       => LET b == last'.data
          IN /\ \A k \in DOMAIN b :
                   LET before == AfterRecords(store, seqs, b, k - 1)
                       tried == save_record_try(db_type, before, b[k])
                       after == AfterRecords(store, seqs, b, k)
                   IN after.store = IF tried.st = "ok" THEN tried.t ELSE before.store
             /\ store' = AfterRecords(store, seqs, b, Len(b)).store
             /\ last'.ret = <<Cardinality(CommittedRecords(store, seqs, b))>>
             /\ last'.raised = "none"]_vars

\* A call on PostgreSQL with two records of one new source: the first has no
\* location and raised after its Source row was inserted (the sequence of
\* source ids advanced twice, one Source row is stored), the second was
\* committed and counted.
C27_Witness ==
    /\ last.op = "save_auctions_to_database" /\ db_type = "postgresql"
    /\ Len(last.data) = 2
    /\ "location" \notin DOMAIN last.data[1]
    /\ Complete(last.data[2])
    /\ seqs.sources = 2 /\ Len(store.sources) = 1
    /\ RowsHolding(last.data[1]) = {}
    /\ RowsHolding(last.data[2]) # {}
    /\ last.ret = <<1>>

----------------------------------------------------------------------------
(* Dedup within a batch, checked under SpecCalc *)

\* Two records have the same title and the same url.
SamePair(a, b) ==
    /\ Get(a, "title", << >>) = Get(b, "title", << >>)
    /\ Get(a, "url", << >>) = Get(b, "url", << >>)

\* The records of s that no earlier record of s has the title and url of,
\* in the order of s.
RECURSIVE FirstOfEachPair(_)
FirstOfEachPair(s) ==
    IF s = << >> THEN << >>
    ELSE LET n == Len(s)
             firsts == FirstOfEachPair(SubSeq(s, 1, n - 1))
         IN IF \E j \in 1..(n - 1) : SamePair(s[j], s[n]) THEN firsts
            ELSE Append(firsts, s[n])

\* C28: _remove_duplicates returns the records of its input, in the input's
\* order, without those that an earlier record has the title and the url of:
\* the first record of each (title, url) pair stays, records that differ in
\* title or in url all stay, and the result run through the function again
\* comes back unchanged.
C28_FirstOfEachPairKept ==
    calc.op = "_remove_duplicates"
    => /\ calc.unique_auctions = FirstOfEachPair(calc.auctions)
       /\ _remove_duplicates(calc.unique_auctions) = calc.unique_auctions

----------------------------------------------------------------------------
(* Orchestrator, checked under SpecSched *)

\* The records of the scrapers i..n whose scrape() returned, each list with
\* its scraper's name and url on every record, in the scrapers' order.
RECURSIVE RecordsOfReturned(_, _)
RecordsOfReturned(scraped, i) ==
    IF i > Len(scraped) THEN << >>
    ELSE (IF scraped[i].raised THEN << >>
          ELSE [k \in DOMAIN scraped[i].auctions |->
                  [source_name |-> Scrapers[i].source_name,
                   source_url |-> Scrapers[i].source_url]
                  @@ scraped[i].auctions[k]])
         \o RecordsOfReturned(scraped, i + 1)

\* The record a carries the name and url of scraper i.
TaggedBy(a, i) ==
    /\ {"source_name", "source_url"} \subseteq DOMAIN a
    /\ a.source_name = Scrapers[i].source_name
    /\ a.source_url = Scrapers[i].source_url

\* C29: a scraper whose scrape() raises leaves run_all_scrapers in its loop,
\* so that the scrapers after it run, and the combined file holds, in the
\* scrapers' order, the records of every scraper whose scrape() returned,
\* each with its own scraper's name and url.
C29_ScraperIsolation ==
    /\ (/\ run.scraped # << >>
        /\ Len(run.scraped) < Len(Scrapers)
        /\ run.scraped[Len(run.scraped)].raised)
       => run.pc = "loop"
    /\ run.file # << >>
       => /\ Len(run.scraped) = Len(Scrapers)
          /\ run.file[1].auctions = RecordsOfReturned(run.scraped, 1)

\* A combined file written after the second scraper raised and the first and
\* the third returned records: it holds the first's and then the third's,
\* the third's under the third's name although a record brought another.
C29_Witness ==
    /\ run.pc = "returned" /\ run.file # << >>
    /\ ~run.scraped[1].raised /\ run.scraped[2].raised /\ ~run.scraped[3].raised
    /\ Len(run.scraped[1].auctions) = 1 /\ Len(run.scraped[3].auctions) = 2
    /\ Len(run.file[1].auctions) = 3
    /\ TaggedBy(run.file[1].auctions[1], 1)
    /\ TaggedBy(run.file[1].auctions[3], 3)

----------------------------------------------------------------------------
(* Scheduler, checked under SpecSchedFair *)

\* A step in which job() begins.
JobBegins == sched'.active > sched.active

\* C30: run_scheduler runs a job before it first looks at the schedule, and
\* with no time gone since it made the schedule; later jobs begin only when
\* the time to the next run has gone; a job begins only when no job is
\* active, so at most one is; and after a job that raised the loop goes on
\* and a later job begins.
C30_SingleFlight ==
    /\ [](sched.pc \in {"run_pending", "sleep", "pending_job"} => sched.ran)
    /\ [][JobBegins => /\ sched.active = 0
                       /\ sched.until = IF sched.ran THEN 0 ELSE EveryTicks]_vars
    /\ [](sched.active <= 1)
    /\ (sched.raised /\ sched.active = 0) ~> (sched.active = 1)

\* The loop asleep, with time left to the next run, after a job that raised.
C30_Witness ==
    /\ sched.pc = "sleep" /\ sched.until > 0
    /\ sched.ran /\ sched.raised /\ sched.active = 0
    /\ run.pc = "raised"

====
